---- MODULE Spec2Model ----
(***************************************************************************)
(* rust9cc: a compiler from a tiny C-like language to x86-64 assembly.     *)
(* The model follows the pipeline of the sources: lexer.rs (tokenize),     *)
(* ast/parser.rs (Parser), ast/node.rs (Node), gen.rs (AsmCodeGen), and a  *)
(* machine that executes the instructions gen.rs emits.                    *)
(*                                                                         *)
(* A character is a one-character string and a source text a sequence of   *)
(* characters.  A Token is a record [k, v, s]: its kind, the payload of a  *)
(* Num and the name (a sequence of characters) of an Identifier.  A Node   *)
(* is a record with the field kind and the fields of its variant.  An      *)
(* Option is either a value or NoneNode.                                   *)
(***************************************************************************)
EXTENDS Integers, Sequences, FiniteSets, TLC

VARIABLES phase, src, tokens, parsed, asm, m, locals, calls, last, gen, call,
          args, token_iter

vars ==
    <<phase, src, tokens, parsed, asm, m, locals, calls, last, gen, call,
      args, token_iter>>

(***************************************************************************)
(* lexer.rs                                                                *)
(***************************************************************************)
Tok(k) == [k |-> k, v |-> 0, s |-> <<>>]

TNum(n) == [k |-> "Num", v |-> n, s |-> <<>>]

TIdent(name) == [k |-> "Identifier", v |-> 0, s |-> name]

\* A lexer that skips "@" as it skips whitespace.
WhitespaceAndAt == {" ", "\n", "\t", "@"}

Whitespace == {" ", "\n", "\t"}

Digits == {"0", "1", "2", "3", "4", "5", "6", "7", "8", "9"}

Alphabetic ==
    {"a", "b", "c", "d", "e", "f", "g", "h", "i", "j", "k", "l", "m",
     "n", "o", "p", "q", "r", "s", "t", "u", "v", "w", "x", "y", "z",
     "A", "B", "Z"}

to_digit(c) ==
    CASE c = "0" -> 0 [] c = "1" -> 1 [] c = "2" -> 2 [] c = "3" -> 3
      [] c = "4" -> 4 [] c = "5" -> 5 [] c = "6" -> 6 [] c = "7" -> 7
      [] c = "8" -> 8 [] c = "9" -> 9

\* A lexer whose words stop at an underscore.
isAlmumNoUnderscore(c) == c \in Alphabetic \/ c \in Digits

is_almum(c) == c \in Alphabetic \/ c \in Digits \/ c = "_"

\* A u32 is held as its two 16-bit halves <<hi, lo>> while it is computed,
\* and in a token as the integer with the same 32 bits: the value itself
\* below 2^31, the value minus 2^32 from there on.
HALF == 65536

U32(hi, lo) ==
    IF hi < HALF \div 2 THEN hi * HALF + lo ELSE (hi - HALF) * HALF + lo

\* 10 * result + n in u32 arithmetic: the halves of the result modulo 2^32
\* and whether the multiplication or the addition overflowed.
MulAdd(hi, lo, n) ==
    LET low == 10 * lo + n
        high == 10 * hi + low \div HALF
    IN  [hi |-> high % HALF, lo |-> low % HALF, over |-> high >= HALF]

\* str_to_u's loop: the digits from position i on, accumulated in result
\* <<hi, lo>>.  With overflow checks (a debug build) an overflow of
\* 10 * result + n panics; without (a release build) the result wraps.
RECURSIVE str_to_u(_, _, _, _, _)
str_to_u(cs, i, hi, lo, checks) ==
    IF i <= Len(cs) /\ cs[i] \in Digits
    THEN LET r == MulAdd(hi, lo, to_digit(cs[i]))
         IN  IF r.over /\ checks
             THEN [ok |-> FALSE, val |-> 0, pos |-> i]
             ELSE str_to_u(cs, i + 1, r.hi, r.lo, checks)
    ELSE [ok |-> TRUE, val |-> U32(hi, lo), pos |-> i]

\* The identifier loop of tokenize: the end of the run of is_almum characters.
RECURSIVE IdentEnd(_, _)
IdentEnd(cs, i) ==
    IF i <= Len(cs) /\ is_almum(cs[i]) THEN IdentEnd(cs, i + 1) ELSE i

Keyword(name) ==
    CASE name = <<"r", "e", "t", "u", "r", "n">> -> Tok("Return")
      [] name = <<"i", "f">> -> Tok("If")
      [] name = <<"e", "l", "s", "e">> -> Tok("Else")
      [] name = <<"w", "h", "i", "l", "e">> -> Tok("While")
      [] name = <<"f", "o", "r">> -> Tok("For")
      [] OTHER -> TIdent(name)

SingleChar(c) ==
    CASE c = "+" -> Tok("Plus")
      [] c = "-" -> Tok("Minus")
      [] c = "*" -> Tok("Multiply")
      [] c = "/" -> Tok("Divide")
      [] c = "(" -> Tok("LeftParen")
      [] c = ")" -> Tok("RightParen")
      [] c = "{" -> Tok("LeftBrace")
      [] c = "}" -> Tok("RightBrace")
      [] c = ";" -> Tok("Semicolon")

SingleChars == {"+", "-", "*", "/", "(", ")", "{", "}", ";"}

\* A lexer without lookahead.
TwoCharTakesOne(c, two) ==
    CASE c = "=" -> Tok("Assign")
      [] c = "<" -> Tok("LessThan")
      [] c = ">" -> Tok("GreaterThan")

\* A character followed by "=" (two) or not (one).
TwoChar(c, two) ==
    CASE c = "=" -> IF two THEN Tok("Equal") ELSE Tok("Assign")
      [] c = "<" -> IF two THEN Tok("LessThanOrEqual") ELSE Tok("LessThan")
      [] c = ">" -> IF two THEN Tok("GreaterThanOrEqual") ELSE Tok("GreaterThan")

\* A lexer that returns the tokens without the end-of-input marker.
PushEofForgotten(toks) == toks

\* The push of the end-of-input marker behind tokenize's loop.
PushEof(toks) == Append(toks, Tok("EOF"))

\* An iter.iterNext() that takes no character.
iterNextTakesNothing(i) == i

\* iter.iterNext(): the character at i is taken.
iterNext(i) == i + 1

\* One turn of tokenize's loop with the character at position i <= Len(cs):
\* [ok, pos, toks] with the position behind the characters taken and the
\* tokens pushed, none or one; ok is FALSE for a panic.
TokenizeStep(cs, i, checks) ==
    LET c == cs[i]
        nextIsEq == i + 1 <= Len(cs) /\ cs[i + 1] = "="
        panic == [ok |-> FALSE, pos |-> i, toks |-> <<>>]
    IN  CASE c \in Whitespace -> [ok |-> TRUE, pos |-> iterNext(i), toks |-> <<>>]
          [] c \in Digits ->
               LET r == str_to_u(cs, i, 0, 0, checks)
               IN  IF ~r.ok THEN panic
                   ELSE [ok |-> TRUE, pos |-> r.pos, toks |-> <<TNum(r.val)>>]
          [] c \in SingleChars ->
               [ok |-> TRUE, pos |-> iterNext(i), toks |-> <<SingleChar(c)>>]
          [] c \in {"=", "<", ">"} ->
               [ok |-> TRUE,
                pos |-> IF nextIsEq THEN iterNext(iterNext(i)) ELSE iterNext(i),
                toks |-> <<TwoChar(c, nextIsEq)>>]
          [] c = "!" ->
               IF nextIsEq
               THEN [ok |-> TRUE, pos |-> iterNext(iterNext(i)),
                     toks |-> <<Tok("NotEqual")>>]
               ELSE panic
          [] c \in Alphabetic ->
               LET e == IdentEnd(cs, iterNext(i))
               IN  [ok |-> TRUE, pos |-> e,
                    toks |-> <<Keyword(SubSeq(cs, i, e - 1))>>]
          [] OTHER -> panic

\* tokenize's loop from position i with the tokens pushed so far.  A panic
\* returns no tokens.
RECURSIVE TokenizeFrom(_, _, _, _)
TokenizeFrom(cs, i, toks, checks) ==
    IF i > Len(cs) THEN [ok |-> TRUE, toks |-> PushEof(toks)]
    ELSE LET s == TokenizeStep(cs, i, checks)
         IN  IF ~s.ok THEN [ok |-> FALSE, toks |-> <<>>]
             ELSE TokenizeFrom(cs, s.pos, toks \o s.toks, checks)

\* lexer::consume on the tokens from index i: the next token is taken if
\* it is consuing_token.
lexerConsume(toks, i, consuing_token) ==
    IF i <= Len(toks) /\ toks[i] = consuing_token
    THEN [ok |-> TRUE, pos |-> i + 1]
    ELSE [ok |-> FALSE, pos |-> i]

\* tokenize in a build with overflow checks or without.
tokenize(cs, checks) == TokenizeFrom(cs, 1, <<>>, checks)

(***************************************************************************)
(* ast/node.rs                                                             *)
(***************************************************************************)
NoneNode == [kind |-> "None"]

LocalVar(ident, offset) == [ident |-> ident, offset |-> offset]

Num(n) == [kind |-> "Num", val |-> n]

Lvar(var) == [kind |-> "Lvar", var |-> var]

\* Assign, Add, Sub, Mul, Div, Lt, Le, Eq, Ne: the variants { l, r }.
Bin(kind, l, r) == [kind |-> kind, l |-> l, r |-> r]

Return(e) == [kind |-> "Return", expr |-> e]

If(cond, then, els) == [kind |-> "If", cond |-> cond, then |-> then, els |-> els]

While(cond, then) == [kind |-> "While", cond |-> cond, then |-> then]

For(init, cond, step, then) ==
    [kind |-> "For", init |-> init, cond |-> cond, step |-> step, then |-> then]

Block(stmts) == [kind |-> "Block", stmts |-> stmts]

BinKinds == {"Assign", "Add", "Sub", "Mul", "Div", "Lt", "Le", "Eq", "Ne"}

\* The fixed texts of Display: "[rbp-", "(return ", "(if (", " else ",
\* "(while (" and "(for (".
RBP_OPEN == <<"[", "r", "b", "p", "-">>

PAREN_RETURN == <<"(", "r", "e", "t", "u", "r", "n", " ">>

PAREN_IF == <<"(", "i", "f", " ", "(">>

SP_ELSE == <<" ", "e", "l", "s", "e", " ">>

PAREN_WHILE == <<"(", "w", "h", "i", "l", "e", " ", "(">>

PAREN_FOR == <<"(", "f", "o", "r", " ", "(">>

\* The decimal digits Display writes for an unsigned number.
RECURSIVE to_string(_)
to_string(n) ==
    LET digit == <<"0", "1", "2", "3", "4", "5", "6", "7", "8", "9">>
    IN  IF n < 10 THEN <<digit[n + 1]>>
        ELSE to_string(n \div 10) \o <<digit[(n % 10) + 1]>>

\* The operator Display writes between the operands of a binary node.
OpText(kind) ==
    CASE kind = "Assign" -> <<"=">>
      [] kind = "Add" -> <<"+">>
      [] kind = "Sub" -> <<"-">>
      [] kind = "Mul" -> <<"*">>
      [] kind = "Div" -> <<"/">>
      [] kind = "Lt" -> <<"<">>
      [] kind = "Le" -> <<"<", "=">>
      [] kind = "Eq" -> <<"=", "=">>
      [] kind = "Ne" -> <<"!", "=">>

\* impl Display for Node: the text as a sequence of characters; an absent
\* clause of for is written as the empty text.
RECURSIVE Display(_), DisplayStmts(_)
Display(node) ==
    CASE node.kind = "None" -> <<>>
      [] node.kind = "Num" -> to_string(node.val)
      [] node.kind = "Lvar" ->
            node.var.ident \o RBP_OPEN \o to_string(node.var.offset) \o <<"]">>
      [] node.kind \in BinKinds ->
            <<"(">> \o Display(node.l) \o <<" ">> \o OpText(node.kind)
            \o <<" ">> \o Display(node.r) \o <<")">>
      [] node.kind = "Return" ->
            PAREN_RETURN \o Display(node.expr) \o <<")">>
      [] node.kind = "If" ->
            PAREN_IF \o Display(node.cond) \o <<")", " ">>
            \o Display(node.then)
            \o (IF node.els = NoneNode THEN <<>>
                ELSE SP_ELSE \o Display(node.els))
            \o <<")">>
      [] node.kind = "While" ->
            PAREN_WHILE \o Display(node.cond) \o <<")", " ">>
            \o Display(node.then) \o <<")">>
      [] node.kind = "For" ->
            PAREN_FOR \o Display(node.init) \o <<";", " ">>
            \o Display(node.cond) \o <<";", " ">> \o Display(node.step)
            \o <<")", " ">> \o Display(node.then) \o <<")">>
      [] node.kind = "Block" ->
            <<"{", " ">> \o DisplayStmts(node.stmts) \o <<"}">>

\* Each statement followed by "; ": the loop of Block and of Nodes.
DisplayStmts(nodes) ==
    IF nodes = <<>> THEN <<>>
    ELSE Display(Head(nodes)) \o <<";", " ">> \o DisplayStmts(Tail(nodes))

\* impl Display for Nodes
DisplayNodes(nodes) == DisplayStmts(nodes)

(***************************************************************************)
(* ast/parser.rs.  The parser's state st is [pos, locals]: the cursor of   *)
(* the Peekable token iterator (the index of the next token) and the       *)
(* symbol table.  A Result is [ok, node, err, st].                         *)
(***************************************************************************)
LOCAL_VAR_OFFSET == 8

NoErr == [e |-> "", expected |-> <<>>, actual |-> <<>>]

UnexpectedToken(expected, actual) ==
    [e |-> "UnexpectedToken", expected |-> expected, actual |-> actual]

NotEnoughTokens == [e |-> "NotEnoughTokens", expected |-> <<>>, actual |-> <<>>]

Ok(node, st) == [ok |-> TRUE, node |-> node, err |-> NoErr, st |-> st]

Err(err, st) == [ok |-> FALSE, node |-> NoneNode, err |-> err, st |-> st]

\* A panic inside the parser: no Result is returned.
Panicked(st) ==
    [ok |-> FALSE, node |-> NoneNode,
     err |-> [e |-> "panic", expected |-> <<>>, actual |-> <<>>], st |-> st]

NewParser == [pos |-> 1, locals |-> <<>>]

\* A peek that finds an end-of-input marker behind the last token.
peekPastTheEnd(toks, st) ==
    [ok |-> TRUE, err |-> NoErr,
     t |-> IF st.pos <= Len(toks) THEN toks[st.pos] ELSE Tok("EOF")]

\* Parser::peek: the next token, not consumed.
peek(toks, st) ==
    IF st.pos <= Len(toks)
    THEN [ok |-> TRUE, t |-> toks[st.pos], err |-> NoErr]
    ELSE [ok |-> FALSE, t |-> Tok("EOF"), err |-> NotEnoughTokens]

\* A consume whose failed probe takes the token.
consumeLosesToken(toks, st, token) ==
    IF st.pos <= Len(toks)
    THEN IF toks[st.pos] = token
         THEN Ok(NoneNode, [st EXCEPT !.pos = @ + 1])
         ELSE Err(UnexpectedToken(<<token>>, <<toks[st.pos]>>),
                  [st EXCEPT !.pos = @ + 1])
    ELSE Err(NotEnoughTokens, st)

\* A consume that takes the next token whatever it is.
consumeAnyToken(toks, st, token) ==
    IF st.pos <= Len(toks)
    THEN Ok(NoneNode, [st EXCEPT !.pos = @ + 1])
    ELSE Err(NotEnoughTokens, st)

\* Parser::consume
consume(toks, st, token) ==
    IF st.pos <= Len(toks)
    THEN IF toks[st.pos] = token
         THEN Ok(NoneNode, [st EXCEPT !.pos = @ + 1])
         ELSE Err(UnexpectedToken(<<token>>, <<toks[st.pos]>>), st)
    ELSE Err(NotEnoughTokens, st)

\* The search loop of get_local_var: the first variable named ident, from i.
RECURSIVE FindLocal(_, _, _)
FindLocal(ls, ident, i) ==
    IF i > Len(ls) THEN 0
    ELSE IF ls[i].ident = ident THEN i ELSE FindLocal(ls, ident, i + 1)

\* A table whose first offset is 0.
NewLocalOffsetFromZero(ls) == Len(ls) * LOCAL_VAR_OFFSET

NewLocalOffset(ls) == (Len(ls) + 1) * LOCAL_VAR_OFFSET

\* Parser::get_local_var: the variable and the table after the call.
get_local_var(ls, ident) ==
    LET i == FindLocal(ls, ident, 1)
    IN  IF i # 0 THEN [var |-> ls[i], locals |-> ls]
        ELSE LET var == LocalVar(ident, NewLocalOffset(ls))
             IN  [var |-> var, locals |-> Append(ls, var)]

\* A unary that drops the sign.
UnaryNodeIgnoreSign(sign, p) == p

\* The node unary builds for a sign before the primary p.
UnaryNode(sign, p) == IF sign = "Minus" THEN Bin("Sub", Num(0), p) ELSE p

\* The node mul builds for an operator token.
MulNode(k, node, rhs) ==
    CASE k = "Multiply" -> Bin("Mul", node, rhs)
      [] k = "Divide" -> Bin("Div", node, rhs)

\* An add whose operators associate to the right.
AddNodeRightAssoc(k, node, rhs) ==
    LET kind == IF k = "Plus" THEN "Add" ELSE "Sub"
    IN  IF node.kind \in {"Add", "Sub"}
        THEN Bin(node.kind, node.l, Bin(kind, node.r, rhs))
        ELSE Bin(kind, node, rhs)

\* The node add builds for an operator token.
AddNode(k, node, rhs) ==
    CASE k = "Plus" -> Bin("Add", node, rhs)
      [] k = "Minus" -> Bin("Sub", node, rhs)

\* A relational that keeps the operands of ">" and ">=" in place.
RelationalNodeUnswapped(k, node, rhs) ==
    Bin(IF k \in {"LessThan", "GreaterThan"} THEN "Lt" ELSE "Le", node, rhs)

\* The node relational builds for an operator token: ">" and ">=" build Lt
\* and Le with the operands swapped.
RelationalNode(k, node, rhs) ==
    CASE k = "LessThan" -> Bin("Lt", node, rhs)
      [] k = "LessThanOrEqual" -> Bin("Le", node, rhs)
      [] k = "GreaterThan" -> Bin("Lt", rhs, node)
      [] k = "GreaterThanOrEqual" -> Bin("Le", rhs, node)

\* The node equality builds for an operator token.
EqualityNode(k, node, rhs) ==
    CASE k = "Equal" -> Bin("Eq", node, rhs)
      [] k = "NotEqual" -> Bin("Ne", node, rhs)

\* The node assign builds.
AssignNode(node, rhs) == Bin("Assign", node, rhs)

\* The operator tokens each loop of the expression grammar accepts.
MulOps == {"Multiply", "Divide"}

AddOps == {"Plus", "Minus"}

RelationalOps ==
    {"LessThan", "LessThanOrEqual", "GreaterThan", "GreaterThanOrEqual"}

EqualityOps == {"Equal", "NotEqual"}

\* The construct a statement starts with, by its first token.
StmtKind(k) ==
    IF k \in {"LeftBrace", "Return", "If", "While", "For"} THEN k ELSE "Expr"

\* An expected set without the parenthesis.
PrimaryExpectedShort == <<TNum(0), TIdent(<<"a">>)>>

\* The value expected where primary finds no operand.
PrimaryExpected == <<TNum(0), TIdent(<<"a">>), Tok("LeftParen")>>

(***************************************************************************)
(* The methods of the recursive descent, one case each of Rule, named by   *)
(* rule as in parser.rs; the cases "...Loop" are the loops of the methods  *)
(* with the node built so far in arg.  The cases ExprStmt (expr ";", a     *)
(* return when arg is TRUE), ParenExpr ("(" expr ")") and ForClause (one   *)
(* clause of for up to its delimiter arg) are the parts of stmt.           *)
(***************************************************************************)
RECURSIVE Rule(_, _, _, _)
Rule(rule, toks, st, arg) ==
    LET p == peek(toks, st)
        after == consume(toks, st, p.t).st
    IN
    CASE rule = "primary" ->
        \* primary = num | ident | "(" expr ")"
        IF ~p.ok THEN Err(p.err, st)
        ELSE CASE p.t.k = "Num" -> Ok(Num(p.t.v), after)
               [] p.t.k = "Identifier" ->
                    LET g == get_local_var(after.locals, p.t.s)
                    IN  Ok(Lvar(g.var), [after EXCEPT !.locals = g.locals])
               [] p.t.k = "LeftParen" ->
                    LET e == Rule("expr", toks, after, NoneNode)
                        d == consume(toks, e.st, Tok("RightParen"))
                    IN  IF ~e.ok THEN e
                        ELSE IF ~d.ok THEN d
                        ELSE Ok(e.node, d.st)
               [] OTHER ->
                    \* actual: vec![self.peek().unwrap().clone()]
                    LET again == peek(toks, st)
                    IN  IF again.ok
                        THEN Err(UnexpectedToken(PrimaryExpected, <<again.t>>),
                                 st)
                        ELSE Panicked(st)
    [] rule = "unary" ->
        \* unary = ("+" | "-")? primary
        LET plus == consume(toks, st, Tok("Plus"))
            minus == consume(toks, st, Tok("Minus"))
                r == Rule("primary", toks,
                      IF plus.ok THEN plus.st
                      ELSE IF minus.ok THEN minus.st ELSE st, NoneNode)
        IN  IF ~r.ok THEN r
            ELSE IF plus.ok THEN Ok(UnaryNode("Plus", r.node), r.st)
            ELSE IF minus.ok THEN Ok(UnaryNode("Minus", r.node), r.st)
            ELSE r
    [] rule = "mul" ->
        \* mul = unary ("*" unary | "/" unary)*
        LET r == Rule("unary", toks, st, NoneNode)
        IN  IF ~r.ok THEN r ELSE Rule("mulLoop", toks, r.st, r.node)
    [] rule = "mulLoop" ->
        IF ~p.ok THEN Err(p.err, st)
        ELSE IF p.t.k \in MulOps
        THEN LET r == Rule("unary", toks, after, NoneNode)
             IN  IF ~r.ok THEN r
                 ELSE Rule("mulLoop", toks, r.st, MulNode(p.t.k, arg, r.node))
        ELSE Ok(arg, st)
    [] rule = "add" ->
        \* add = mul ("+" mul | "-" mul)*
        LET r == Rule("mul", toks, st, NoneNode)
        IN  IF ~r.ok THEN r ELSE Rule("addLoop", toks, r.st, r.node)
    [] rule = "addLoop" ->
        IF ~p.ok THEN Err(p.err, st)
        ELSE IF p.t.k \in AddOps
        THEN LET r == Rule("mul", toks, after, NoneNode)
             IN  IF ~r.ok THEN r
                 ELSE Rule("addLoop", toks, r.st, AddNode(p.t.k, arg, r.node))
        ELSE Ok(arg, st)
    [] rule = "relational" ->
        \* relational = add ("<" add | "<=" add | ">" add | ">=" add)*
        LET r == Rule("add", toks, st, NoneNode)
        IN  IF ~r.ok THEN r ELSE Rule("relationalLoop", toks, r.st, r.node)
    [] rule = "relationalLoop" ->
        IF ~p.ok THEN Err(p.err, st)
        ELSE IF p.t.k \in RelationalOps
        THEN LET r == Rule("add", toks, after, NoneNode)
             IN  IF ~r.ok THEN r
                 ELSE Rule("relationalLoop", toks, r.st,
                           RelationalNode(p.t.k, arg, r.node))
        ELSE Ok(arg, st)
    [] rule = "equality" ->
        \* equality = relational ("==" relational | "!=" relational)*
        LET r == Rule("relational", toks, st, NoneNode)
        IN  IF ~r.ok THEN r ELSE Rule("equalityLoop", toks, r.st, r.node)
    [] rule = "equalityLoop" ->
        IF ~p.ok THEN Err(p.err, st)
        ELSE IF p.t.k \in EqualityOps
        THEN LET r == Rule("relational", toks, after, NoneNode)
             IN  IF ~r.ok THEN r
                 ELSE Rule("equalityLoop", toks, r.st,
                           EqualityNode(p.t.k, arg, r.node))
        ELSE Ok(arg, st)
    [] rule = "assign" ->
        \* assign = equality ("=" assign)?
        LET l == Rule("equality", toks, st, NoneNode)
            c == consume(toks, l.st, Tok("Assign"))
            r == Rule("assign", toks, c.st, NoneNode)
        IN  IF ~l.ok THEN l
            ELSE IF c.ok
            THEN IF ~r.ok THEN r ELSE Ok(AssignNode(l.node, r.node), r.st)
            ELSE l
    [] rule = "expr" ->
        \* expr = assign
        Rule("assign", toks, st, NoneNode)
    [] rule = "ExprStmt" ->
        LET e == Rule("expr", toks, st, NoneNode)
            c == consume(toks, e.st, Tok("Semicolon"))
        IN  IF ~e.ok THEN e
            ELSE IF ~c.ok THEN c
            ELSE Ok(IF arg THEN Return(e.node) ELSE e.node, c.st)
    [] rule = "ParenExpr" ->
        LET a == consume(toks, st, Tok("LeftParen"))
            e == Rule("expr", toks, a.st, NoneNode)
            b == consume(toks, e.st, Tok("RightParen"))
        IN  IF ~a.ok THEN a
            ELSE IF ~e.ok THEN e
            ELSE IF ~b.ok THEN b
            ELSE Ok(e.node, b.st)
    [] rule = "ForClause" ->
        \* If the delimiter can be consumed the clause is None, else it is
        \* an expression; then the delimiter is consumed.
        LET probe == consume(toks, st, arg)
            clause == IF probe.ok THEN Ok(NoneNode, probe.st)
                      ELSE Rule("expr", toks, st, NoneNode)
            c == consume(toks, clause.st, arg)
        IN  IF ~clause.ok THEN clause
            ELSE IF ~c.ok THEN c
            ELSE Ok(clause.node, c.st)
    [] rule = "blockLoop" ->
        \* The statements of a block up to "}"; arg holds those parsed.
        LET c == consume(toks, st, Tok("RightBrace"))
            s == Rule("stmt", toks, st, NoneNode)
        IN  IF c.ok THEN Ok(Block(arg), c.st)
            ELSE IF ~s.ok THEN s
            ELSE Rule("blockLoop", toks, s.st, Append(arg, s.node))
    [] rule = "stmt" ->
        IF ~p.ok THEN Err(p.err, st)
        ELSE CASE StmtKind(p.t.k) = "LeftBrace" ->
                    Rule("blockLoop", toks, after, <<>>)
               [] StmtKind(p.t.k) = "Return" ->
                    Rule("ExprStmt", toks, after, TRUE)
               [] StmtKind(p.t.k) = "If" ->
                    LET cond == Rule("ParenExpr", toks, after, NoneNode)
                        then == Rule("stmt", toks, cond.st, NoneNode)
                        else == consume(toks, then.st, Tok("Else"))
                        els == Rule("stmt", toks, else.st, NoneNode)
                    IN  IF ~cond.ok THEN cond
                        ELSE IF ~then.ok THEN then
                        ELSE IF else.ok
                        THEN IF ~els.ok THEN els
                             ELSE Ok(If(cond.node, then.node, els.node), els.st)
                        ELSE Ok(If(cond.node, then.node, NoneNode), then.st)
               [] StmtKind(p.t.k) = "While" ->
                    LET cond == Rule("ParenExpr", toks, after, NoneNode)
                        then == Rule("stmt", toks, cond.st, NoneNode)
                    IN  IF ~cond.ok THEN cond
                        ELSE IF ~then.ok THEN then
                        ELSE Ok(While(cond.node, then.node), then.st)
               [] StmtKind(p.t.k) = "For" ->
                    LET lp == consume(toks, after, Tok("LeftParen"))
                        init == Rule("ForClause", toks, lp.st, Tok("Semicolon"))
                        cond == Rule("ForClause", toks, init.st,
                                     Tok("Semicolon"))
                        step == Rule("ForClause", toks, cond.st,
                                     Tok("RightParen"))
                        then == Rule("stmt", toks, step.st, NoneNode)
                    IN  IF ~lp.ok THEN lp
                        ELSE IF ~init.ok THEN init
                        ELSE IF ~cond.ok THEN cond
                        ELSE IF ~step.ok THEN step
                        ELSE IF ~then.ok THEN then
                        ELSE Ok(For(init.node, cond.node, step.node, then.node),
                                then.st)
               [] StmtKind(p.t.k) = "Expr" ->
                    Rule("ExprStmt", toks, st, FALSE)

primary(toks, st) == Rule("primary", toks, st, NoneNode)

unary(toks, st) == Rule("unary", toks, st, NoneNode)

mul(toks, st) == Rule("mul", toks, st, NoneNode)

add(toks, st) == Rule("add", toks, st, NoneNode)

relational(toks, st) == Rule("relational", toks, st, NoneNode)

equality(toks, st) == Rule("equality", toks, st, NoneNode)

assign(toks, st) == Rule("assign", toks, st, NoneNode)

expr(toks, st) == Rule("expr", toks, st, NoneNode)

stmt(toks, st) == Rule("stmt", toks, st, NoneNode)

\* program = stmt*: statements until EOF is consumed.
RECURSIVE ProgramLoop(_, _, _)
ProgramLoop(toks, st, nodes) ==
    LET c == consume(toks, st, Tok("EOF"))
        s == stmt(toks, st)
    IN  IF c.ok THEN [ok |-> TRUE, nodes |-> nodes, err |-> NoErr, st |-> c.st]
        ELSE IF ~s.ok
        THEN [ok |-> FALSE, nodes |-> <<>>, err |-> s.err, st |-> s.st]
        ELSE ProgramLoop(toks, s.st, Append(nodes, s.node))

program(toks) == ProgramLoop(toks, NewParser, <<>>)

\* Parser::new(tokens).parse()
parse(toks) == program(toks)

(***************************************************************************)
(* gen.rs.  An instruction is [op, n, lk]: the text of the line, and for   *)
(* the lines with a parameter its number n and, for a label or a jump,     *)
(* the label's kind lk ("begin", "else", "end"); the label .L<lk>.L<n> is  *)
(* the pair (lk, n).  The generator's state g is [code, ctr, ok]: the      *)
(* lines written to the sink so far, label_index_counter, and whether the  *)
(* generator is still running (FALSE after lval's panic).  The sink w is   *)
(* in g too: sink is the number of writes it still accepts (Unlimited for  *)
(* a sink that never fails), fails the io::Error it returns from then on,  *)
(* writes the number of writes made to it, and io the error the running    *)
(* call is returning with (NoIoError while it has none).                   *)
(***************************************************************************)
I(op) == [op |-> op, n |-> 0, lk |-> ""]

In(op, n) == [op |-> op, n |-> n, lk |-> ""]

Il(op, lk, n) == [op |-> op, n |-> n, lk |-> lk]

Unlimited == -1

NoIoError == ""

\* AsmCodeGen::new(w) for a sink w that accepts `accepts` writes and fails
\* with `error` from then on.
GenOn(accepts, error) ==
    [code |-> <<>>, ctr |-> 0, ok |-> TRUE, sink |-> accepts,
     fails |-> error, writes |-> 0, io |-> NoIoError]

\* AsmCodeGen::new(w) for a sink that never fails.
NewGen == GenOn(Unlimited, NoIoError)

\* The generator has not panicked and the call has not returned an error.
Running(g) == g.ok /\ g.io = NoIoError

\* Writes whose errors are dropped: every line is attempted, and the call
\* goes on.
EmitWithoutQuestionMark(g, lines) ==
    IF ~Running(g) THEN g
    ELSE LET n == Len(lines)
             can == IF g.sink = Unlimited \/ g.sink >= n THEN n ELSE g.sink
         IN  [g EXCEPT !.code = @ \o SubSeq(lines, 1, can),
                       !.sink = IF @ = Unlimited THEN @ ELSE @ - can,
                       !.writes = @ + n]

\* writeln!(self.w, ...)? for each line of lines: the lines are written
\* one after the other, and the first write that fails ends the call with
\* the sink's error.
Emit(g, lines) ==
    IF ~Running(g) THEN g
    ELSE LET n == Len(lines)
             can == IF g.sink = Unlimited \/ g.sink >= n THEN n ELSE g.sink
         IN  [g EXCEPT !.code = @ \o SubSeq(lines, 1, can),
                       !.sink = IF @ = Unlimited THEN @ ELSE @ - can,
                       !.writes = @ + (IF can < n THEN can + 1 ELSE n),
                       !.io = IF can < n THEN g.fails ELSE @]

\* A label_index that does not count.
labelIndexStuck(g) == g

\* AsmCodeGen::label_index: the counter taken for a label, then incremented.
\* It is not reached once a call is returning with an error.
label_index(g) == IF Running(g) THEN [g EXCEPT !.ctr = @ + 1] ELSE g

\* An lval that takes any node for a variable at offset 8.
lvalOfAnything(node, g) ==
    Emit(g, <<I("mov rax, rbp"), In("sub rax,", 8), I("push rax")>>)

\* AsmCodeGen::lval
lval(node, g) ==
    IF ~Running(g) THEN g
    ELSE IF node.kind = "Lvar"
    THEN Emit(g, <<I("mov rax, rbp"), In("sub rax,", node.var.offset),
                   I("push rax")>>)
    ELSE [g EXCEPT !.ok = FALSE]

\* A binary operation that pops the left operand into rdi and the right
\* into rax.
BinTailPopsSwapped(kind) ==
    <<I("pop rax"), I("pop rdi"), I("sub rax, rdi"), I("push rax")>>

\* A binary operation that does not push its result.
BinTailNoPush(kind) == <<I("pop rdi"), I("pop rax"), I("add rax, rdi")>>

\* The lines that follow the two operands of a binary node.
BinTail(kind) ==
    CASE kind = "Add" -> <<I("pop rdi"), I("pop rax"), I("add rax, rdi"),
                           I("push rax")>>
      [] kind = "Sub" -> <<I("pop rdi"), I("pop rax"), I("sub rax, rdi"),
                           I("push rax")>>
      [] kind = "Mul" -> <<I("pop rdi"), I("pop rax"), I("imul rax, rdi"),
                           I("push rax")>>
      [] kind = "Div" -> <<I("pop rdi"), I("pop rax"), I("cqo"),
                           I("idiv rdi"), I("push rax")>>
      [] kind = "Eq" -> <<I("pop rdi"), I("pop rax"), I("cmp rax, rdi"),
                          I("sete al"), I("movzb rax, al"), I("push rax")>>
      [] kind = "Ne" -> <<I("pop rdi"), I("pop rax"), I("cmp rax, rdi"),
                          I("setne al"), I("movzb rax, al"), I("push rax")>>
      [] kind = "Lt" -> <<I("pop rdi"), I("pop rax"), I("cmp rax, rdi"),
                          I("setl al"), I("movzb rax, al"), I("push rax")>>
      [] kind = "Le" -> <<I("pop rdi"), I("pop rax"), I("cmp rax, rdi"),
                          I("setle al"), I("movzb rax, al"), I("push rax")>>

\* A condition check that tests rax without the condition popped into it.
CondCheckNoPop(lk, n) == <<I("cmp rax, 0"), Il("je", lk, n)>>

\* A condition check that always leaves.
CondCheckAlwaysJumps(lk, n) ==
    <<I("pop rax"), I("cmp rax, 0"), Il("jmp", lk, n)>>

\* The condition check of if, while and for.
CondCheck(lk, n) == <<I("pop rax"), I("cmp rax, 0"), Il("je", lk, n)>>

\* An assignment that leaves the address on the stack.
AssignTailPushesAddress ==
    <<I("pop rdi"), I("pop rax"), I("mov [rax], rdi"), I("push rax")>>

\* The lines that follow the address and the value of an assignment.
AssignTail ==
    <<I("pop rdi"), I("pop rax"), I("mov [rax], rdi"), I("push rdi")>>

\* A return that does not tear down the frame.
ReturnTailKeepsFrame == <<I("pop rax"), I("ret")>>

\* The lines that follow the expression of a return.
ReturnTail ==
    <<I("pop rax"), I("mov rsp, rbp"), I("pop rbp"), I("ret")>>

RECURSIVE from_node(_, _), BlockStmts(_, _, _)

\* The loop of the Block case: each statement, then pop rax.
BlockStmts(stmts, i, g) ==
    IF i > Len(stmts) \/ ~Running(g) THEN g
    ELSE BlockStmts(stmts, i + 1,
                    Emit(from_node(stmts[i], g), <<I("pop rax")>>))

\* AsmCodeGen::from_node
from_node(node, g) ==
    IF ~Running(g) THEN g
    ELSE CASE node.kind = "Num" -> Emit(g, <<In("push", node.val)>>)
           [] node.kind \in BinKinds \ {"Assign"} ->
                Emit(from_node(node.r, from_node(node.l, g)),
                     BinTail(node.kind))
           [] node.kind = "Lvar" ->
                Emit(lval(node, g),
                     <<I("pop rax"), I("mov rax, [rax]"), I("push rax")>>)
           [] node.kind = "Assign" ->
                Emit(from_node(node.r, lval(node.l, g)), AssignTail)
           [] node.kind = "Return" ->
                Emit(from_node(node.expr, g), ReturnTail)
           [] node.kind = "If" /\ node.els # NoneNode ->
                LET n == g.ctr
                    c == Emit(from_node(node.cond, label_index(g)),
                              CondCheck("else", n))
                    t == Emit(from_node(node.then, c),
                              <<Il("jmp", "end", n), Il("label", "else", n)>>)
                IN  Emit(from_node(node.els, t), <<Il("label", "end", n)>>)
           [] node.kind = "If" /\ node.els = NoneNode ->
                LET n == g.ctr
                    c == Emit(from_node(node.cond, label_index(g)),
                              CondCheck("end", n))
                IN  Emit(from_node(node.then, c), <<Il("label", "end", n)>>)
           [] node.kind = "While" ->
                LET n == g.ctr
                    b == Emit(label_index(g), <<Il("label", "begin", n)>>)
                    c == Emit(from_node(node.cond, b), CondCheck("end", n))
                IN  Emit(from_node(node.then, c),
                         <<Il("jmp", "begin", n), Il("label", "end", n)>>)
           [] node.kind = "For" ->
                LET i == IF node.init # NoneNode THEN from_node(node.init, g)
                         ELSE g
                    n == i.ctr
                    b == Emit(label_index(i), <<Il("label", "begin", n)>>)
                    c == IF node.cond # NoneNode THEN from_node(node.cond, b)
                         ELSE b
                    t == from_node(node.then, Emit(c, CondCheck("end", n)))
                    s == IF node.step # NoneNode THEN from_node(node.step, t)
                         ELSE t
                IN  Emit(s, <<Il("jmp", "begin", n), Il("label", "end", n)>>)
           [] node.kind = "Block" -> BlockStmts(node.stmts, 1, g)

\* CodeGen::prefix
prefix(g) ==
    Emit(g, <<I(".intel_syntax noprefix"), I(".globl main"), I("main:")>>)

FRAME_SIZE == 208

\* CodeGen::prologue
prologue(g) ==
    Emit(g, <<I("push rbp"), I("mov rbp, rsp"), In("sub rsp,", FRAME_SIZE)>>)

\* CodeGen::gen_from_nodes: each node, then pop rax.
RECURSIVE gen_from_nodes(_, _, _)
gen_from_nodes(nodes, i, g) ==
    IF i > Len(nodes) \/ ~Running(g) THEN g
    ELSE gen_from_nodes(nodes, i + 1,
                        Emit(from_node(nodes[i], g), <<I("pop rax")>>))

\* CodeGen::epilogue
epilogue(g) == Emit(g, <<I("mov rsp, rbp"), I("pop rbp"), I("ret")>>)

\* The driver: the preamble, the prologue, the statements, the epilogue.
Compile(nodes) ==
    epilogue(gen_from_nodes(nodes, 1, prologue(prefix(NewGen))))

(***************************************************************************)
(* The machine that runs the emitted lines: the x86-64 meaning of each     *)
(* line gen.rs writes.  mc is [pc, rax, rdi, rsp, rbp, eq, lt, mem, ra,    *)
(* st, steps]: pc is the index in the code of the next line, eq and lt are *)
(* the flags the last cmp left (operands equal, first operand less), mem   *)
(* maps the addresses written so far to their values, ra tells that the    *)
(* return address main's caller pushed (at address 0, where rsp points on  *)
(* entry) has not been overwritten, and st is "running", "halted" (main    *)
(* returned to its caller) or "fault".  The stack grows towards lower      *)
(* addresses, a word is 8 bytes.  A read of an address never written       *)
(* yields any value of Garbage, which then is the value there.  The        *)
(* bounded programs of this model keep every value far inside the 64-bit   *)
(* range, so arithmetic is not reduced modulo 2^64.                        *)
(***************************************************************************)
Garbage == {0, 5}

\* The indices of the lines of code that define the label (lk, n).
LabelDefs(code, lk, n) ==
    {i \in 1..Len(code) : code[i] = Il("label", lk, n)}

\* The line a jump to (lk, n) continues at; 0 if the label is undefined.
LabelPos(code, lk, n) ==
    LET d == LabelDefs(code, lk, n)
    IN  IF d = {} THEN 0 ELSE CHOOSE i \in d : \A j \in d : i <= j

\* main's entry: the line after "main:", rsp at the return address.
InitMachine(code) ==
    [pc |-> 4, rax |-> 0, rdi |-> 0, rsp |-> 0, rbp |-> 0,
     eq |-> FALSE, lt |-> FALSE, mem |-> << >>, ra |-> TRUE,
     st |-> "running", steps |-> 0]

IdleMachine ==
    [pc |-> 0, rax |-> 0, rdi |-> 0, rsp |-> 0, rbp |-> 0,
     eq |-> FALSE, lt |-> FALSE, mem |-> << >>, ra |-> TRUE,
     st |-> "idle", steps |-> 0]

Load(mem, a, g) == IF a \in DOMAIN mem THEN mem[a] ELSE g

\* The memory after a read of a: a value read from an address never written
\* stays the value there.
Touch(mem, a, g) == IF a \in DOMAIN mem THEN mem ELSE (a :> g) @@ mem

Store(mem, a, v) == (a :> v) @@ mem

\* A write to memory; a write over the return address loses it.
Write(mc, a, v) ==
    [mc EXCEPT !.mem = Store(@, a, v), !.ra = @ /\ a # 0]

Push(mc, v) == [Write(mc, mc.rsp - 8, v) EXCEPT !.rsp = @ - 8]

\* idiv: the quotient truncated towards zero.
TruncDiv(a, b) ==
    LET abs(x) == IF x < 0 THEN -x ELSE x
        q == abs(a) \div abs(b)
    IN  IF (a < 0) = (b < 0) THEN q ELSE -q

\* al := bit, the other bytes of rax kept.
SetAl(rax, bit) == (rax - (rax % 256)) + (IF bit THEN 1 ELSE 0)

Fault(mc) == [mc EXCEPT !.st = "fault"]

\* The effect of the line ins on the machine; g is the value an
\* uninitialized read yields.
Exec(code, mc, ins, g) ==
    LET top == Load(mc.mem, mc.rsp, g)
        next == [mc EXCEPT !.pc = @ + 1]
        popped == [next EXCEPT !.rsp = @ + 8, !.mem = Touch(@, mc.rsp, g)]
    IN  CASE ins.op = "push" -> Push(next, ins.n)
          [] ins.op = "push rax" -> Push(next, mc.rax)
          [] ins.op = "push rdi" -> Push(next, mc.rdi)
          [] ins.op = "push rbp" -> Push(next, mc.rbp)
          [] ins.op = "pop rax" -> [popped EXCEPT !.rax = top]
          [] ins.op = "pop rdi" -> [popped EXCEPT !.rdi = top]
          [] ins.op = "pop rbp" -> [popped EXCEPT !.rbp = top]
          [] ins.op = "add rax, rdi" -> [next EXCEPT !.rax = mc.rax + mc.rdi]
          [] ins.op = "sub rax, rdi" -> [next EXCEPT !.rax = mc.rax - mc.rdi]
          [] ins.op = "imul rax, rdi" -> [next EXCEPT !.rax = mc.rax * mc.rdi]
          [] ins.op = "cqo" -> next
          [] ins.op = "idiv rdi" ->
               IF mc.rdi = 0 THEN Fault(mc)
               ELSE [next EXCEPT !.rax = TruncDiv(mc.rax, mc.rdi)]
          [] ins.op = "cmp rax, rdi" ->
               [next EXCEPT !.eq = (mc.rax = mc.rdi), !.lt = (mc.rax < mc.rdi)]
          [] ins.op = "cmp rax, 0" ->
               [next EXCEPT !.eq = (mc.rax = 0), !.lt = (mc.rax < 0)]
          [] ins.op = "sete al" -> [next EXCEPT !.rax = SetAl(@, mc.eq)]
          [] ins.op = "setne al" -> [next EXCEPT !.rax = SetAl(@, ~mc.eq)]
          [] ins.op = "setl al" -> [next EXCEPT !.rax = SetAl(@, mc.lt)]
          [] ins.op = "setle al" ->
               [next EXCEPT !.rax = SetAl(@, mc.lt \/ mc.eq)]
          [] ins.op = "movzb rax, al" -> [next EXCEPT !.rax = @ % 256]
          [] ins.op = "mov rax, rbp" -> [next EXCEPT !.rax = mc.rbp]
          [] ins.op = "sub rax," -> [next EXCEPT !.rax = @ - ins.n]
          [] ins.op = "mov rax, [rax]" ->
               [next EXCEPT !.rax = Load(mc.mem, mc.rax, g),
                            !.mem = Touch(@, mc.rax, g)]
          [] ins.op = "mov [rax], rdi" ->
               Write(next, mc.rax, mc.rdi)
          [] ins.op = "mov rbp, rsp" -> [next EXCEPT !.rbp = mc.rsp]
          [] ins.op = "mov rsp, rbp" -> [next EXCEPT !.rsp = mc.rbp]
          [] ins.op = "sub rsp," -> [next EXCEPT !.rsp = @ - ins.n]
          [] ins.op = "ret" ->
               IF mc.rsp = 0 /\ mc.ra
               THEN [mc EXCEPT !.rsp = @ + 8, !.st = "halted"]
               ELSE Fault(mc)
          [] ins.op = "je" ->
               IF mc.eq
               THEN IF LabelPos(code, ins.lk, ins.n) = 0 THEN Fault(mc)
                    ELSE [mc EXCEPT !.pc = LabelPos(code, ins.lk, ins.n)]
               ELSE next
          [] ins.op = "jmp" ->
               IF LabelPos(code, ins.lk, ins.n) = 0 THEN Fault(mc)
               ELSE [mc EXCEPT !.pc = LabelPos(code, ins.lk, ins.n)]
          [] ins.op = "label" -> next
          [] OTHER -> Fault(mc)

\* One step of the machine: the line at pc, counted.
Step(code, mc, g) ==
    IF mc.pc < 1 \/ mc.pc > Len(code) THEN Fault(mc)
    ELSE [Exec(code, mc, code[mc.pc], g) EXCEPT !.steps = @ + 1]

(***************************************************************************)
(* The pipeline as a state machine: a source text is tokenized, the tokens *)
(* are parsed, code is generated for the statements and the code is run.   *)
(* phase is the stage the compilation is at: "lex", "parse", "gen", "run", *)
(* or where it ended: "lexpanic" (tokenize panicked), "parseerr" (parse    *)
(* returned Err), "genpanic" (lval panicked).                              *)
(***************************************************************************)
MaxSteps == 450

\* No call of the generator has been made.
NoCall == [op |-> "", before |-> NewGen, count |-> 0]

NoParse == [ok |-> FALSE, nodes |-> <<>>, err |-> NoErr, st |-> NewParser]

\* "x=1;while(x<10) x=x+1; return x;"
SrcWhile == <<"x", "=", "1", ";", "w", "h", "i", "l", "e", "(", "x", "<", "1", "0", ")", " ", "x", "=", "x", "+", "1", ";", " ", "r", "e", "t", "u", "r", "n", " ", "x", ";">>

\* "x=0;for(i=0;i<5;i=i+1) x=x+i; return x;"
SrcFor == <<"x", "=", "0", ";", "f", "o", "r", "(", "i", "=", "0", ";", "i", "<", "5", ";", "i", "=", "i", "+", "1", ")", " ", "x", "=", "x", "+", "i", ";", " ", "r", "e", "t", "u", "r", "n", " ", "x", ";">>

\* "for(;;) return 3;"
SrcForEmpty == <<"f", "o", "r", "(", ";", ";", ")", " ", "r", "e", "t", "u", "r", "n", " ", "3", ";">>

\* "for(;;;;)) return 3;"
SrcForDoubled == <<"f", "o", "r", "(", ";", ";", ";", ";", ")", ")", " ", "r", "e", "t", "u", "r", "n", " ", "3", ";">>

\* "a=3; if (a != 3) return 1; else { b = a*2; } return b/4;"
SrcIfElse == <<"a", "=", "3", ";", " ", "i", "f", " ", "(", "a", " ", "!", "=", " ", "3", ")", " ", "r", "e", "t", "u", "r", "n", " ", "1", ";", " ", "e", "l", "s", "e", " ", "{", " ", "b", " ", "=", " ", "a", "*", "2", ";", " ", "}", " ", "r", "e", "t", "u", "r", "n", " ", "b", "/", "4", ";">>

\* "1 = 2;"
SrcBadAssign == <<"1", " ", "=", " ", "2", ";">>

\* "1 ! 2;"
SrcBadChar == <<"1", " ", "!", " ", "2", ";">>

\* "a+1=2;"
SrcBadAssignSum == <<"a", "+", "1", "=", "2", ";">>

\* "a=1=2;"
SrcBadAssignNested == <<"a", "=", "1", "=", "2", ";">>

\* "a=1; 1=a;"
SrcBadAssignSecond == <<"a", "=", "1", ";", " ", "1", "=", "a", ";">>

Sources ==
    {SrcWhile, SrcFor, SrcForEmpty, SrcForDoubled, SrcIfElse, SrcBadAssign,
     SrcBadChar, SrcBadAssignSum, SrcBadAssignNested, SrcBadAssignSecond}

Init ==
    /\ phase = "lex"
    /\ src \in Sources
    /\ tokens = <<>>
    /\ parsed = NoParse
    /\ asm = <<>>
    /\ m = IdleMachine
    /\ locals = <<>>
    /\ calls = <<>>
    /\ last = LocalVar(<<>>, 0)
    /\ gen = NewGen
    /\ call = NoCall
    /\ args = <<>>
    /\ token_iter = 0

\* tokenize(src)
Tokenize ==
    /\ phase = "lex"
    /\ \E checks \in BOOLEAN :
          /\ tokens' = tokenize(src, checks).toks
          /\ phase' = IF tokenize(src, checks).ok THEN "parse" ELSE "lexpanic"
    /\ UNCHANGED <<src, parsed, asm, m, locals, calls, last, gen, call,
                 args, token_iter>>

\* Parser::new(tokens).parse()
Parse ==
    /\ phase = "parse"
    /\ parsed' = parse(tokens)
    /\ phase' = IF parse(tokens).ok THEN "gen"
              ELSE IF parse(tokens).err.e = "panic" THEN "parsepanic"
              ELSE "parseerr"
    /\ UNCHANGED <<src, tokens, asm, m, locals, calls, last, gen, call,
                 args, token_iter>>

\* The code generator run on the parsed statements; main is then entered.
Generate ==
    /\ phase = "gen"
    /\ asm' = Compile(parsed.nodes).code
    /\ phase' = IF Compile(parsed.nodes).ok THEN "run" ELSE "genpanic"
    /\ m' = IF Compile(parsed.nodes).ok
            THEN InitMachine(Compile(parsed.nodes).code) ELSE m
    /\ UNCHANGED <<src, tokens, parsed, locals, calls, last, gen, call,
                 args, token_iter>>

\* The machine executes the line at pc.
ExecStep ==
    /\ phase = "run"
    /\ m.st = "running"
    /\ m.steps < MaxSteps
    /\ \E g \in Garbage : m' = Step(asm, m, g)
    /\ UNCHANGED <<phase, src, tokens, parsed, asm, locals, calls, last, gen, call,
                 args, token_iter>>

Next == Tokenize \/ Parse \/ Generate \/ ExecStep

Spec == Init /\ [][Next]_vars

(***************************************************************************)
(* The code generator alone: statements given as trees, as the parser      *)
(* builds them, are compiled and run.                                      *)
(***************************************************************************)
MaxLit == 2

VarA == LocalVar(<<"a">>, LOCAL_VAR_OFFSET)

VarB == LocalVar(<<"b">>, 2 * LOCAL_VAR_OFFSET)

GenLeaves == {Num(n) : n \in 0..MaxLit} \cup {Lvar(VarA)}

ValueKinds == BinKinds \ {"Assign"}

\* Expressions with one operator.
GenExprs1 ==
    {Bin(k, x, y) : k \in ValueKinds, x \in GenLeaves, y \in GenLeaves}
    \cup {Bin("Assign", Lvar(VarA), x) : x \in GenLeaves}

\* The operands of the expressions with nested operators.
GenOperands ==
    GenLeaves \cup
    {Bin("Add", Num(1), Lvar(VarA)), Bin("Lt", Lvar(VarA), Num(1)),
     Bin("Assign", Lvar(VarA), Num(2)), Bin("Div", Num(2), Num(1)),
     Bin("Sub", Num(0), Num(2))}

GenExprs2 ==
    {Bin(k, x, y) : k \in ValueKinds, x \in GenOperands, y \in GenOperands}
    \cup {Bin("Assign", Lvar(VarA), x) : x \in GenOperands}

GenExprs == GenLeaves \cup GenExprs1 \cup GenExprs2

Incr == Bin("Assign", Lvar(VarA), Bin("Add", Lvar(VarA), Num(1)))

GenBodies == {Num(7), Return(Num(7)), Bin("Assign", Lvar(VarA), Num(1))}

\* Conditions: zero, one, other values, and the variable never assigned.
GenConds ==
    {Num(0), Num(1), Num(2), Bin("Sub", Num(0), Num(2)),
     Bin("Sub", Num(2), Num(2)), Lvar(VarA)}

GenIfs ==
    {If(c, b, e) : c \in GenConds, b \in GenBodies,
                   e \in GenBodies \cup {NoneNode}}

GenWhiles == {While(c, b) : c \in {Num(0), Num(1)}, b \in GenBodies}

GenFors ==
    {For(i, c, s, b) :
        i \in {NoneNode, Bin("Assign", Lvar(VarA), Num(0))},
        c \in {NoneNode, Num(0), Bin("Lt", Lvar(VarA), Num(2))},
        s \in {NoneNode, Incr},
        b \in {Num(7), Return(Lvar(VarA))}}

GenBlocks ==
    {Block(<<>>), Block(<<Num(7)>>), Block(<<Num(7), Return(Num(8))>>),
     Block(<<Block(<<>>), Incr>>)}

GenStmts ==
    GenIfs \cup GenWhiles \cup GenFors \cup GenBlocks
    \cup {Return(e) : e \in GenOperands}

\* Control constructs inside and beside each other.
GenNested ==
    {<<If(Num(1), If(Num(0), Num(7), NoneNode), While(Num(0), Num(7))),
       For(NoneNode, Num(0), NoneNode, Num(7)),
       If(Num(0), Num(7), NoneNode)>>,
     <<Bin("Assign", Lvar(VarA), Num(0)),
       While(Bin("Lt", Lvar(VarA), Num(2)),
             Block(<<If(Bin("Eq", Lvar(VarA), Num(1)),
                        While(Num(0), Num(7)),
                        For(NoneNode, Num(0), NoneNode, Block(<<>>))),
                     Incr>>)),
       Return(Lvar(VarA))>>,
     <<For(Bin("Assign", Lvar(VarA), Num(0)), Bin("Lt", Lvar(VarA), Num(2)),
           Incr,
           For(NoneNode, Num(0), NoneNode, If(Num(1), Num(7), Num(8)))),
       Block(<<While(Num(0), Num(7)), While(Num(0), Num(7))>>)>>,
     <<Bin("Assign", Lvar(VarA), Num(0)),
       While(Num(1),
             Block(<<Num(7),
                     If(Bin("Eq", Lvar(VarA), Num(2)),
                        Block(<<Return(Bin("Add", Lvar(VarA), Num(1)))>>),
                        NoneNode),
                     Incr>>)),
       Return(Num(9))>>,
     <<Block(<<>>),
       Bin("Assign", Lvar(VarA), Num(0)),
       For(NoneNode, NoneNode, NoneNode,
           If(Bin("Lt", Lvar(VarA), Num(2)), Incr,
              Return(Bin("Mul", Lvar(VarA), Num(2))))),
       Return(Num(9))>>}

\* Assignments with two variables.
GenAssigns ==
    {<<Bin("Assign", Lvar(VarB), Num(1)),
       Bin("Assign", Lvar(VarA), Bin("Assign", Lvar(VarB), Num(3)))>>,
     <<Bin("Assign", Lvar(VarB), Num(1)),
       Bin("Assign", Lvar(VarA), Num(2))>>,
     <<Bin("Assign", Lvar(VarA), Num(1)),
       Bin("Assign", Lvar(VarB), Bin("Add", Lvar(VarA), Num(1))),
       Bin("Assign", Lvar(VarA), Bin("Mul", Lvar(VarB), Lvar(VarB)))>>,
     <<Bin("Assign", Lvar(VarA), Lvar(VarB)),
       Bin("Assign", Lvar(VarB),
           Bin("Add", Bin("Assign", Lvar(VarA), Num(2)), Lvar(VarB)))>>}

GenPrograms ==
    {<<s>> : s \in GenExprs \cup GenStmts} \cup GenNested \cup GenAssigns
    \cup {<<Bin("Assign", Lvar(VarA), Num(0)), s, Return(Lvar(VarA))>> :
            s \in {While(Bin("Lt", Lvar(VarA), Num(2)), Incr),
                   While(Bin("Lt", Lvar(VarA), Num(2)), Block(<<Incr>>)),
                   If(Bin("Eq", Lvar(VarA), Num(0)), Incr, NoneNode),
                   If(Lvar(VarA), Incr, Block(<<>>))}}

InitGen ==
    /\ phase = "gen"
    /\ src = <<>>
    /\ tokens = <<>>
    /\ \E nodes \in GenPrograms :
          parsed = [ok |-> TRUE, nodes |-> nodes, err |-> NoErr,
                    st |-> NewParser]
    /\ asm = <<>>
    /\ m = IdleMachine
    /\ locals = <<>>
    /\ calls = <<>>
    /\ last = LocalVar(<<>>, 0)
    /\ gen = NewGen
    /\ call = NoCall
    /\ args = <<>>
    /\ token_iter = 0

NextGen == Generate \/ ExecStep

SpecGen == InitGen /\ [][NextGen]_vars

(***************************************************************************)
(* Properties of the generated code.                                       *)
(***************************************************************************)
\* The index in the code of the first line of the first statement.
BodyStart == Len(prologue(prefix(NewGen)).code) + 1

\* rsp after the prologue, where the evaluation stack of main starts.
StmtRsp == 0 - 8 - FRAME_SIZE

\* The number of lines from_node writes for a node.
CodeLen(node) == Len(from_node(node, NewGen).code)

\* The index of the first line of the i-th top-level statement; for
\* i = Len(nodes) + 1, of the epilogue.
RECURSIVE StmtStart(_, _)
StmtStart(nodes, i) ==
    IF i = 1 THEN BodyStart
    ELSE StmtStart(nodes, i - 1) + CodeLen(nodes[i - 1]) + 1

Compiled == phase = "run"

Stuck == m.st = "running" /\ m.steps >= MaxSteps

CompileFailed == phase \in {"lexpanic", "parseerr", "genpanic"}

\* C1: the programs "x=1;while(x<10) x=x+1; return x;" and
\* "x=0;for(i=0;i<5;i=i+1) x=x+i; return x;" compile, and running the code
\* neither faults nor runs on for ever: it halts, and returns 10.
C1_ControlFlowReturns10 ==
    src \in {SrcWhile, SrcFor} =>
        /\ ~CompileFailed
        /\ m.st # "fault"
        /\ ~Stuck
        /\ (m.st = "halted" => m.rax = 10)

C1_Witness == src = SrcFor /\ m.st = "halted" /\ m.rax = 10

C1_WitnessWhile == src = SrcWhile /\ m.st = "halted" /\ m.rax = 10

\* C2: every statement leaves the stack as it found it: whenever execution
\* reaches the line after a top-level statement's discarding pop rax, rsp is
\* where it was before the statement.
C2_StatementsKeepStack ==
    Compiled =>
        \A i \in 2..(Len(parsed.nodes) + 1) :
            (m.st = "running" /\ m.pc = StmtStart(parsed.nodes, i))
                => m.rsp = StmtRsp

\* The expressions inside the expression e whose code starts at line s and
\* is entered with d values on the stack: [node, from, depth], where the
\* right operand of a binary node and the right-hand side of an assignment
\* are entered with one value more.
RECURSIVE SubExprs(_, _, _)
SubExprs(e, s, d) ==
    {[node |-> e, from |-> s, depth |-> d]} \cup
    (IF e.kind \in ValueKinds
     THEN SubExprs(e.l, s, d) \cup SubExprs(e.r, s + CodeLen(e.l), d + 1)
     ELSE IF e.kind = "Assign"
     THEN SubExprs(e.r, s + Len(lval(e.l, NewGen).code), d + 1)
     ELSE {})

IsExpr(node) == node.kind \in BinKinds \cup {"Num", "Lvar"}

\* C3: the code of every expression, entered with d values on the stack,
\* never leaves fewer than d there and ends with d + 1.
C3_ExpressionPushesOne ==
    (Compiled /\ Len(parsed.nodes) = 1 /\ IsExpr(parsed.nodes[1])) =>
        \A x \in SubExprs(parsed.nodes[1], BodyStart, 0) :
            /\ m.pc \in x.from..(x.from + CodeLen(x.node) - 1)
                  => m.rsp <= StmtRsp - 8 * x.depth
            /\ m.pc = x.from + CodeLen(x.node)
                  => m.rsp = StmtRsp - 8 * (x.depth + 1)

\* A nested expression has been evaluated: the machine is at the pop rax
\* that follows the statement (a = 2) < (1 + a).
C3_Witness ==
    /\ Compiled
    /\ parsed.nodes =
          <<Bin("Lt", Bin("Assign", Lvar(VarA), Num(2)),
                      Bin("Add", Num(1), Lvar(VarA)))>>
    /\ m.pc = BodyStart + CodeLen(parsed.nodes[1])
    /\ m.rsp = StmtRsp - 8
    /\ m.mem[m.rsp] = 1

\* C5: "for(;;) return 3;" compiles, and running it halts with 3 returned.
C5_EmptyForReturns ==
    src = SrcForEmpty =>
        /\ ~CompileFailed
        /\ m.st # "fault"
        /\ ~Stuck
        /\ (m.st = "halted" => m.rax = 3)

\* The lines the claim C6 describes for a For node: the code of each clause
\* only if the clause is present, and the condition check only with a
\* condition.
ForWithClausesOmitted(node, g) ==
    LET i == IF node.init # NoneNode THEN from_node(node.init, g) ELSE g
        n == i.ctr
        b == Emit(label_index(i), <<Il("label", "begin", n)>>)
        c == IF node.cond # NoneNode
             THEN Emit(from_node(node.cond, b), CondCheck("end", n))
             ELSE b
        t == from_node(node.then, c)
        s == IF node.step # NoneNode THEN from_node(node.step, t) ELSE t
    IN  Emit(s, <<Il("jmp", "begin", n), Il("label", "end", n)>>)

\* C6: the code of a For node holds the code of init, cond and step only
\* for the clauses present, and without a condition no condition check.
C6_ForOmitsAbsentClauses ==
    (Compiled /\ Len(parsed.nodes) = 1 /\ parsed.nodes[1].kind = "For") =>
        from_node(parsed.nodes[1], NewGen).code
            = ForWithClausesOmitted(parsed.nodes[1], NewGen).code

(***************************************************************************)
(* The symbol table alone: the identifiers of a program are resolved one   *)
(* after the other, as primary does for each Identifier token.  calls is   *)
(* the sequence of the names resolved so far, last the variable the last   *)
(* call returned.                                                          *)
(***************************************************************************)
MaxCalls == 5

Idents == {<<"a">>, <<"z">>, <<"h", "o", "g", "e">>, <<"h", "u", "g", "a">>}

InitSym ==
    /\ phase = "sym"
    /\ src = <<>>
    /\ tokens = <<>>
    /\ parsed = NoParse
    /\ asm = <<>>
    /\ m = IdleMachine
    /\ locals = <<>>
    /\ calls = <<>>
    /\ last = LocalVar(<<>>, 0)
    /\ gen = NewGen
    /\ call = NoCall
    /\ args = <<>>
    /\ token_iter = 0

\* self.get_local_var(ident)
Resolve(ident) ==
    /\ Len(calls) < MaxCalls
    /\ locals' = get_local_var(locals, ident).locals
    /\ last' = get_local_var(locals, ident).var
    /\ calls' = Append(calls, ident)
    /\ UNCHANGED <<phase, src, tokens, parsed, asm, m, gen, call, args,
                 token_iter>>

NextSym == \E ident \in Idents : Resolve(ident)

SpecSym == InitSym /\ [][NextSym]_vars

\* The names of a sequence of names in the order of their first appearance.
RECURSIVE FirstAppearances(_)
FirstAppearances(names) ==
    IF names = <<>> THEN <<>>
    ELSE LET n == Len(names)
             before == FirstAppearances(SubSeq(names, 1, n - 1))
         IN  IF \E i \in 1..(n - 1) : names[i] = names[n] THEN before
             ELSE Append(before, names[n])

\* The place of a name in a sequence of distinct names that holds it.
IndexOf(names, name) == CHOOSE i \in 1..Len(names) : names[i] = name

\* C7: the table holds the distinct identifiers in the order of their first
\* appearance, the k-th (from 0) at offset (k+1)*8; no name twice, offsets
\* distinct and increasing; a call returns the variable of its name, for a
\* name seen before with its first offset and without growing the table.
C7_SymbolTable ==
    phase = "sym" =>
        LET first == FirstAppearances(calls)
        IN  /\ Len(locals) = Len(first)
            /\ \A k \in 0..(Len(first) - 1) :
                  /\ locals[k + 1].ident = first[k + 1]
                  /\ locals[k + 1].offset = (k + 1) * 8
            /\ \A i, j \in 1..Len(locals) :
                  i < j => /\ locals[i].ident # locals[j].ident
                           /\ locals[i].offset < locals[j].offset
            /\ calls # <<>> =>
                  /\ last.ident = calls[Len(calls)]
                  /\ last.offset = IndexOf(first, last.ident) * 8

\* hoge, huga, a were resolved, and then hoge again.
C7_Witness ==
    /\ phase = "sym"
    /\ calls = <<<<"h", "o", "g", "e">>, <<"h", "u", "g", "a">>, <<"a">>,
                 <<"h", "o", "g", "e">>>>
    /\ Len(locals) = 3
    /\ last = LocalVar(<<"h", "o", "g", "e">>, 8)

(***************************************************************************)
(* The parser alone: Parser::new(tokens).parse() on token sequences, those *)
(* of the sources below as tokenize returns them and those of ParseInputs. *)
(***************************************************************************)
MaxNum == 1

\* "1-2-3;"
SrcSubSub == <<"1", "-", "2", "-", "3", ";">>

\* "1+2*3-4/2;"
SrcMixed == <<"1", "+", "2", "*", "3", "-", "4", "/", "2", ";">>

\* "(1+2)*(3-4)/2;"
SrcParens == <<"(", "1", "+", "2", ")", "*", "(", "3", "-", "4", ")", "/", "2", ";">>

\* "-1+2;"
SrcUnaryMinus == <<"-", "1", "+", "2", ";">>

\* "+1-2;"
SrcUnaryPlus == <<"+", "1", "-", "2", ";">>

\* "1+;"
SrcMissingOperand == <<"1", "+", ";">>

\* "1>2;"
SrcGreater == <<"1", ">", "2", ";">>

\* "1>=2;"
SrcGreaterEq == <<"1", ">", "=", "2", ";">>

\* "1+"
SrcMissingAtEnd == <<"1", "+">>

ParseSources ==
    {SrcSubSub, SrcMixed, SrcParens, SrcUnaryMinus, SrcUnaryPlus,
     SrcMissingOperand, SrcMissingAtEnd, SrcGreater, SrcGreaterEq}

\* ";" and the end of the input.
End == <<Tok("Semicolon"), Tok("EOF")>>

BinaryOps == MulOps \cup AddOps \cup RelationalOps \cup EqualityOps \cup {"Assign"}

Leaves == {TNum(n) : n \in 1..MaxNum} \cup {TIdent(<<"a">>), TIdent(<<"b">>)}

FewLeaves == {TNum(1), TIdent(<<"a">>)}

Signs == {<<>>, <<Tok("Plus")>>, <<Tok("Minus")>>}

\* x, x o y, x o y o z, and 1 o 2 o 3 o 4
Chains ==
    {<<x>> : x \in Leaves}
    \cup {<<x, Tok(o), y>> : x, y \in Leaves, o \in BinaryOps}
    \cup {<<x, Tok(o), y, Tok(q), z>> : x, y, z \in Leaves, o, q \in BinaryOps}
    \cup {<<TNum(1), Tok(o), TNum(2), Tok(q), TNum(3), Tok(r), TNum(4)>> :
              o, q, r \in BinaryOps}

\* (x o y) q z and z q (x o y)
Parenthesized ==
    {<<Tok("LeftParen"), x, Tok(o), y, Tok("RightParen"), Tok(q), z>> :
         x, y, z \in FewLeaves, o, q \in BinaryOps}
    \cup {<<z, Tok(q), Tok("LeftParen"), x, Tok(o), y, Tok("RightParen")>> :
              x, y, z \in FewLeaves, o, q \in BinaryOps}
    \cup {<<Tok("LeftParen"), Tok("LeftParen"), x, Tok("RightParen"),
            Tok("RightParen")>> : x \in FewLeaves}

\* Operands with a sign: +x o -y, -x, -(x o y) q z, x q -(y), and the
\* doubled signs the grammar does not have.
Signed ==
    {s \o <<x, Tok(o)>> \o u \o <<y>> : s, u \in Signs, x, y \in Leaves,
                                         o \in BinaryOps}
    \cup {s \o <<x>> : s \in Signs, x \in Leaves}
    \cup {s \o <<Tok("LeftParen"), x, Tok(o), y, Tok("RightParen"), Tok(q), z>> :
              s \in Signs, x, y, z \in FewLeaves, o, q \in BinaryOps}
    \cup {<<x, Tok(q)>> \o s \o <<Tok("LeftParen"), y, Tok("RightParen")>> :
              s \in Signs, x, y \in FewLeaves, q \in BinaryOps}
    \cup {s \o u \o <<TNum(1)>> : s, u \in Signs}

\* a = 0, a < 2 and a = a + 1: the clauses of the loops below.
InitClause == <<TIdent(<<"a">>), Tok("Assign"), TNum(0)>>

CondClause == <<TIdent(<<"a">>), Tok("LessThan"), TNum(2)>>

StepClause ==
    <<TIdent(<<"a">>), Tok("Assign"), TIdent(<<"a">>), Tok("Plus"), TNum(1)>>

\* The statements the loops below have as their body: "1;" and "return 3;"
ForBodies ==
    {<<TNum(1), Tok("Semicolon")>>,
     <<Tok("Return"), TNum(3), Tok("Semicolon")>>}

\* for ( init? ; cond? ; step? ) body: each clause written or not.
ForTokens(init, cond, step, body) ==
    <<Tok("For"), Tok("LeftParen")>>
    \o (IF init THEN InitClause ELSE <<>>) \o <<Tok("Semicolon")>>
    \o (IF cond THEN CondClause ELSE <<>>) \o <<Tok("Semicolon")>>
    \o (IF step THEN StepClause ELSE <<>>) \o <<Tok("RightParen")>>
    \o body \o <<Tok("EOF")>>

ForInputs ==
    {ForTokens(i, c, s, body) : i, c, s \in BOOLEAN, body \in ForBodies}

\* Any sequence of up to MaxToks of these tokens: with or without the end
\* of the input, with tokens behind it, and the empty sequence.
MaxToks == 3

SomeTokens ==
    {TNum(1), TIdent(<<"a">>), Tok("Plus"), Tok("Multiply"), Tok("Assign"),
     Tok("LeftParen"), Tok("RightParen"), Tok("Semicolon"), Tok("EOF"),
     Tok("Return"), Tok("LeftBrace"), Tok("RightBrace"), Tok("If"),
     Tok("For")}

AnyTokens == UNION {[1..n -> SomeTokens] : n \in 0..MaxToks}

\* MaxToks tokens other than EOF, and EOF behind them as tokenize puts it.
Terminated ==
    {Append(s, Tok("EOF")) : s \in [1..MaxToks -> SomeTokens \ {Tok("EOF")}]}

ParseInputs ==
    {e \o End : e \in Chains \cup Parenthesized \cup Signed} \cup ForInputs
    \cup AnyTokens \cup Terminated

InitParse ==
    /\ phase \in {"lex", "parse"}
    /\ src \in (IF phase = "lex" THEN ParseSources ELSE {<<>>})
    /\ tokens \in (IF phase = "lex" THEN {<<>>} ELSE ParseInputs)
    /\ parsed = NoParse
    /\ asm = <<>>
    /\ m = IdleMachine
    /\ locals = <<>>
    /\ calls = <<>>
    /\ last = LocalVar(<<>>, 0)
    /\ gen = NewGen
    /\ call = NoCall
    /\ args = <<>>
    /\ token_iter = 0

NextParse == Tokenize \/ Parse

SpecParse == InitParse /\ [][NextParse]_vars

\* The parser has returned.
ParseDone == phase \in {"gen", "parseerr", "parsepanic"}

(***************************************************************************)
(* The tree the grammar prescribes for an expression, computed from the    *)
(* token sequence without the parser: the expression is split at its       *)
(* operator of the lowest level outside all parentheses, the last one of   *)
(* that level for the levels that associate to the left, the first one     *)
(* for "=".                                                                *)
(***************************************************************************)
\* The number of parentheses open before token i of e.
RECURSIVE DepthAt(_, _)
DepthAt(e, i) ==
    IF i <= 1 THEN 0
    ELSE DepthAt(e, i - 1)
         + (IF e[i - 1].k = "LeftParen" THEN 1
            ELSE IF e[i - 1].k = "RightParen" THEN 0 - 1 ELSE 0)

\* Token i of e is a binary operator of ops outside all parentheses: it
\* follows the end of an operand.
BinaryAt(e, i, ops) ==
    /\ i > 1
    /\ e[i].k \in ops
    /\ DepthAt(e, i) = 0
    /\ e[i - 1].k \in {"Num", "Identifier", "RightParen"}

Splits(e, ops) == {i \in 1..Len(e) : BinaryAt(e, i, ops)}

\* The levels of the grammar, the loosest first.
Levels == <<{"Assign"}, EqualityOps, RelationalOps, AddOps, MulOps>>

\* The node the grammar prescribes for the operator token k.
RefBin(k, l, r) ==
    CASE k = "Assign" -> Bin("Assign", l, r)
      [] k = "Equal" -> Bin("Eq", l, r)
      [] k = "NotEqual" -> Bin("Ne", l, r)
      [] k = "LessThan" -> Bin("Lt", l, r)
      [] k = "LessThanOrEqual" -> Bin("Le", l, r)
      [] k = "GreaterThan" -> Bin("Lt", r, l)
      [] k = "GreaterThanOrEqual" -> Bin("Le", r, l)
      [] k = "Plus" -> Bin("Add", l, r)
      [] k = "Minus" -> Bin("Sub", l, r)
      [] k = "Multiply" -> Bin("Mul", l, r)
      [] k = "Divide" -> Bin("Div", l, r)

\* names: the identifiers of the whole input in the order of their first
\* appearance, which gives each variable its offset.
RECURSIVE RefTree(_, _)
RefTree(e, names) ==
    LET used == {lv \in 1..Len(Levels) : Splits(e, Levels[lv]) # {}}
    IN  IF used # {}
        THEN LET lv == CHOOSE x \in used : \A y \in used : x <= y
                 at == Splits(e, Levels[lv])
                 i == IF lv = 1
                      THEN CHOOSE x \in at : \A y \in at : x <= y
                      ELSE CHOOSE x \in at : \A y \in at : x >= y
             IN  RefBin(e[i].k, RefTree(SubSeq(e, 1, i - 1), names),
                        RefTree(SubSeq(e, i + 1, Len(e)), names))
        ELSE CASE e[1].k = "Minus" ->
                    Bin("Sub", Num(0), RefTree(Tail(e), names))
               [] e[1].k = "Plus" -> RefTree(Tail(e), names)
               [] e[1].k = "LeftParen" ->
                    RefTree(SubSeq(e, 2, Len(e) - 1), names)
               [] e[1].k = "Num" -> Num(e[1].v)
               [] e[1].k = "Identifier" ->
                    Lvar(LocalVar(e[1].s, IndexOf(names, e[1].s) * 8))

\* The expressions of the grammar, read token by token: want is what may
\* come next, an operand (with its sign when signs), a primary (after a
\* sign) or an operator.
RECURSIVE Scan(_, _, _, _, _)
Scan(e, i, depth, want, signs) ==
    IF i > Len(e) THEN want = "operator" /\ depth = 0
    ELSE IF want = "operator"
    THEN IF e[i].k \in BinaryOps THEN Scan(e, i + 1, depth, "operand", signs)
         ELSE IF e[i].k = "RightParen" /\ depth > 0
         THEN Scan(e, i + 1, depth - 1, "operator", signs)
         ELSE FALSE
    ELSE IF e[i].k \in {"Num", "Identifier"}
    THEN Scan(e, i + 1, depth, "operator", signs)
    ELSE IF e[i].k = "LeftParen" THEN Scan(e, i + 1, depth + 1, "operand", signs)
    ELSE IF e[i].k \in AddOps /\ want = "operand" /\ signs
    THEN Scan(e, i + 1, depth, "primary", signs)
    ELSE FALSE

\* e is an expression of the grammar; one without any unary sign.
Grammatical(e) == Scan(e, 1, 0, "operand", TRUE)

SignFree(e) == Scan(e, 1, 0, "operand", FALSE)

\* toks is one expression statement and the end of the input.
IsExprStmt(toks) ==
    /\ Len(toks) > 2
    /\ SubSeq(toks, Len(toks) - 1, Len(toks)) = End
    /\ Grammatical(SubSeq(toks, 1, Len(toks) - 2))

ExprOf(toks) == SubSeq(toks, 1, Len(toks) - 2)

\* The names of the identifier tokens of toks, in order.
RECURSIVE IdentNames(_)
IdentNames(toks) ==
    IF toks = <<>> THEN <<>>
    ELSE IF Head(toks).k = "Identifier"
    THEN <<Head(toks).s>> \o IdentNames(Tail(toks))
    ELSE IdentNames(Tail(toks))

Names(toks) == FirstAppearances(IdentNames(toks))

\* The tree prescribed for the only statement of toks.
Prescribed(toks) == RefTree(ExprOf(toks), Names(toks))

\* C4 (as stated): each of the eight loops for ( init? ; cond? ; step? )
\* body parses to a For node whose clauses are present exactly where the
\* source has them.
C4_ForClausesOptional ==
    \A i, c, s \in BOOLEAN, body \in ForBodies :
        (ParseDone /\ tokens = ForTokens(i, c, s, body)) =>
            /\ parsed.ok
            /\ Len(parsed.nodes) = 1
            /\ parsed.nodes[1].kind = "For"
            /\ parsed.nodes[1].init =
                  (IF i THEN RefTree(InitClause, <<<<"a">>>>) ELSE NoneNode)
            /\ parsed.nodes[1].cond =
                  (IF c THEN RefTree(CondClause, <<<<"a">>>>) ELSE NoneNode)
            /\ parsed.nodes[1].step =
                  (IF s THEN RefTree(StepClause, <<<<"a">>>>) ELSE NoneNode)

\* C8: an expression of numbers, variables, binary operators and
\* parentheses parses to the tree the grammar prescribes, and so do the
\* three examples.
C8_PrecedenceAndAssociativity ==
    /\ (ParseDone /\ IsExprStmt(tokens) /\ SignFree(ExprOf(tokens))) =>
          /\ parsed.ok
          /\ parsed.nodes = <<Prescribed(tokens)>>
    /\ (ParseDone /\ src = SrcSubSub) =>
          parsed.nodes = <<Bin("Sub", Bin("Sub", Num(1), Num(2)), Num(3))>>
    /\ (ParseDone /\ src = SrcMixed) =>
          parsed.nodes =
              <<Bin("Sub", Bin("Add", Num(1), Bin("Mul", Num(2), Num(3))),
                           Bin("Div", Num(4), Num(2)))>>
    /\ (ParseDone /\ src = SrcParens) =>
          parsed.nodes =
              <<Bin("Div", Bin("Mul", Bin("Add", Num(1), Num(2)),
                                      Bin("Sub", Num(3), Num(4))),
                           Num(2))>>

\* 1 + 2 * 3 - 4 was parsed to ((1 + (2 * 3)) - 4).
C8_Witness ==
    /\ ParseDone
    /\ tokens = <<TNum(1), Tok("Plus"), TNum(2), Tok("Multiply"), TNum(3),
                  Tok("Minus"), TNum(4)>> \o End
    /\ parsed.nodes =
          <<Bin("Sub", Bin("Add", Num(1), Bin("Mul", Num(2), Num(3))), Num(4))>>

\* a = b = 1 was parsed to (a = (b = 1)).
C8_WitnessAssign ==
    /\ ParseDone
    /\ tokens = <<TIdent(<<"a">>), Tok("Assign"), TIdent(<<"b">>),
                  Tok("Assign"), TNum(1)>> \o End
    /\ parsed.nodes =
          <<Bin("Assign", Lvar(LocalVar(<<"a">>, 8)),
                Bin("Assign", Lvar(LocalVar(<<"b">>, 16)), Num(1)))>>

\* e is an operand of a relational operator: an expression with no
\* relational, equality or assignment operator outside parentheses.
IsAdditive(e) ==
    /\ Grammatical(e)
    /\ Splits(e, RelationalOps \cup EqualityOps \cup {"Assign"}) = {}

\* The places of tokens where A > B or A >= B is split into its operands.
GreaterSplits(toks) ==
    IF Len(toks) > 2 /\ SubSeq(toks, Len(toks) - 1, Len(toks)) = End
    THEN {i \in 1..Len(ExprOf(toks)) :
              /\ toks[i].k \in {"GreaterThan", "GreaterThanOrEqual"}
              /\ IsAdditive(SubSeq(ExprOf(toks), 1, i - 1))
              /\ IsAdditive(SubSeq(ExprOf(toks), i + 1, Len(ExprOf(toks))))}
    ELSE {}

\* B < A for A > B, and B <= A for A >= B, split at token i.
Mirrored(toks, i) ==
    SubSeq(ExprOf(toks), i + 1, Len(ExprOf(toks)))
    \o <<Tok(IF toks[i].k = "GreaterThan" THEN "LessThan"
             ELSE "LessThanOrEqual")>>
    \o SubSeq(toks, 1, i - 1) \o End

\* The node with the offset of every variable left out.
RECURSIVE StripOffsets(_)
StripOffsets(node) ==
    IF node.kind = "Lvar" THEN Lvar(LocalVar(node.var.ident, 0))
    ELSE IF node.kind \in BinKinds
    THEN Bin(node.kind, StripOffsets(node.l), StripOffsets(node.r))
    ELSE node

\* The kinds of the nodes of a tree.
RECURSIVE Kinds(_), KindsOf(_)
Kinds(node) ==
    {node.kind} \cup
    (CASE node.kind \in BinKinds -> Kinds(node.l) \cup Kinds(node.r)
       [] node.kind = "Return" -> Kinds(node.expr)
       [] node.kind = "If" ->
            Kinds(node.cond) \cup Kinds(node.then) \cup Kinds(node.els)
       [] node.kind = "While" -> Kinds(node.cond) \cup Kinds(node.then)
       [] node.kind = "For" ->
            Kinds(node.init) \cup Kinds(node.cond) \cup Kinds(node.step)
            \cup Kinds(node.then)
       [] node.kind = "Block" -> KindsOf(node.stmts)
       [] OTHER -> {})

KindsOf(nodes) ==
    IF nodes = <<>> THEN {} ELSE Kinds(Head(nodes)) \cup KindsOf(Tail(nodes))

NodeKinds ==
    BinKinds \cup {"Num", "Lvar", "Return", "If", "While", "For", "Block",
                   "None"}

\* C9 (as stated): A > B parses to the very tree of B < A, and A >= B to
\* that of B <= A.
C9_SameTreeAsMirrored ==
    ParseDone =>
        \A i \in GreaterSplits(tokens) :
            /\ parsed.ok
            /\ parsed.nodes = parse(Mirrored(tokens, i)).nodes

\* C9 (amended): A > B parses to the tree of B < A, and A >= B to that of
\* B <= A, up to the offsets of the variables, and to the very same tree
\* when the identifiers first appear in the same order in both; no tree
\* has a node kind for > or >=.
C9_SameTreeUpToOffsets ==
    ParseDone =>
        /\ \A i \in GreaterSplits(tokens) :
              /\ parsed.ok
              /\ parse(Mirrored(tokens, i)).ok
              /\ Len(parsed.nodes) = 1
              /\ StripOffsets(parsed.nodes[1])
                    = StripOffsets(parse(Mirrored(tokens, i)).nodes[1])
              /\ Names(tokens) = Names(Mirrored(tokens, i)) =>
                    parsed.nodes = parse(Mirrored(tokens, i)).nodes
        /\ KindsOf(parsed.nodes) \subseteq NodeKinds

\* a + 1 >= b was parsed to (b <= (a + 1)), with a at 8 and b at 16.
C9_Witness ==
    /\ ParseDone
    /\ tokens = <<TIdent(<<"a">>), Tok("Plus"), TNum(1),
                  Tok("GreaterThanOrEqual"), TIdent(<<"b">>)>> \o End
    /\ parsed.nodes =
          <<Bin("Le", Lvar(LocalVar(<<"b">>, 16)),
                Bin("Add", Lvar(LocalVar(<<"a">>, 8)), Num(1)))>>

\* C10: in an expression with unary signs, - before a primary P gives
\* (0 - P) and + before P gives P, the sign taking the primary only: the
\* tree is the prescribed one, and so are those of "-1+2;" and "+1-2;".
C10_UnaryNormalization ==
    /\ (ParseDone /\ IsExprStmt(tokens) /\ ~SignFree(ExprOf(tokens))) =>
          /\ parsed.ok
          /\ parsed.nodes = <<Prescribed(tokens)>>
    /\ (ParseDone /\ src = SrcUnaryMinus) =>
          parsed.nodes = <<Bin("Add", Bin("Sub", Num(0), Num(1)), Num(2))>>
    /\ (ParseDone /\ src = SrcUnaryPlus) =>
          parsed.nodes = <<Bin("Sub", Num(1), Num(2))>>

\* -(1 + a) * a was parsed to ((0 - (1 + a)) * a).
C10_Witness ==
    /\ ParseDone
    /\ tokens = <<Tok("Minus"), Tok("LeftParen"), TNum(1), Tok("Plus"),
                  TIdent(<<"a">>), Tok("RightParen"), Tok("Multiply"),
                  TIdent(<<"a">>)>> \o End
    /\ parsed.nodes =
          <<Bin("Mul", Bin("Sub", Num(0),
                           Bin("Add", Num(1), Lvar(LocalVar(<<"a">>, 8)))),
                Lvar(LocalVar(<<"a">>, 8)))>>

\* "+1-2;" was parsed to (1 - 2).
C10_WitnessPlus ==
    /\ ParseDone
    /\ src = SrcUnaryPlus
    /\ parsed.nodes = <<Bin("Sub", Num(1), Num(2))>>

\* The assignments stored before the generator meets an assignment to
\* something that is not a variable, walking the nodes in the order the
\* generator does: w is [aborted, stores].
RECURSIVE Walk(_, _), WalkAll(_, _)
Walk(node, w) ==
    IF w.aborted \/ node.kind \in {"Num", "Lvar", "None"} THEN w
    ELSE CASE node.kind = "Assign" ->
                IF node.l.kind # "Lvar" THEN [w EXCEPT !.aborted = TRUE]
                ELSE LET r == Walk(node.r, w)
                     IN  IF r.aborted THEN r
                         ELSE [r EXCEPT !.stores = @ + 1]
           [] node.kind \in BinKinds \ {"Assign"} ->
                Walk(node.r, Walk(node.l, w))
           [] node.kind = "Return" -> Walk(node.expr, w)
           [] node.kind = "If" ->
                Walk(node.els, Walk(node.then, Walk(node.cond, w)))
           [] node.kind = "While" -> Walk(node.then, Walk(node.cond, w))
           [] node.kind = "For" ->
                Walk(node.step, Walk(node.then,
                     Walk(node.cond, Walk(node.init, w))))
           [] node.kind = "Block" -> WalkAll(node.stmts, w)

WalkAll(nodes, w) ==
    IF nodes = <<>> THEN w ELSE WalkAll(Tail(nodes), Walk(Head(nodes), w))

Walked == WalkAll(parsed.nodes, [aborted |-> FALSE, stores |-> 0])

\* The number of store lines in the code.
Stores(code) ==
    Cardinality({i \in 1..Len(code) : code[i].op = "mov [rax], rdi"})

BadAssignSources ==
    {SrcBadAssign, SrcBadAssignSum, SrcBadAssignNested, SrcBadAssignSecond}

\* C11: "1 = 2;", "a+1=2;" and the like parse to Assign nodes without an
\* error; the generator aborts on an Assign whose left side is no variable,
\* it neither completes nor writes the store of that assignment, and it
\* aborts in no other case.
C11_BadAssignAbortsGenerator ==
    /\ src \in BadAssignSources => phase # "parseerr"
    /\ (src = SrcBadAssign /\ phase \notin {"lex", "parse"}) =>
          parsed.nodes = <<Bin("Assign", Num(1), Num(2))>>
    /\ (src = SrcBadAssignSum /\ phase \notin {"lex", "parse"}) =>
          parsed.nodes =
              <<Bin("Assign", Bin("Add", Lvar(LocalVar(<<"a">>, 8)), Num(1)),
                    Num(2))>>
    /\ (src \in BadAssignSources /\ phase \notin {"lex", "parse"}) =>
          Walked.aborted
    /\ phase \in {"run", "genpanic"} =>
          /\ Walked.aborted <=> phase = "genpanic"
          /\ Stores(asm) = Walked.stores

\* "a=1; 1=a;": the generator aborted in the second statement, after the
\* store of the first.
C11_Witness ==
    /\ src = SrcBadAssignSecond
    /\ phase = "genpanic"
    /\ Stores(asm) = 1
    /\ asm[Len(asm)] = I("pop rax")

\* Where the parser needs an operand and finds none, read from the tokens
\* without the parser: the index of the first token that stands where an
\* operand must start and starts none, 0 if there is no such token or the
\* tokens before it hold a statement other than expressions and returns.
\* want is "stmt" at the start of a statement, else as in Scan.
RECURSIVE MissingOperand(_, _, _, _)
MissingOperand(toks, i, depth, want) ==
    IF i > Len(toks) THEN 0
    ELSE IF want = "operator"
    THEN IF toks[i].k \in BinaryOps
         THEN MissingOperand(toks, i + 1, depth, "operand")
         ELSE IF toks[i].k = "RightParen" /\ depth > 0
         THEN MissingOperand(toks, i + 1, depth - 1, "operator")
         ELSE IF toks[i].k = "Semicolon" /\ depth = 0
         THEN MissingOperand(toks, i + 1, 0, "stmt")
         ELSE 0
    ELSE IF toks[i].k \in {"Num", "Identifier"}
    THEN MissingOperand(toks, i + 1, depth, "operator")
    ELSE IF toks[i].k = "LeftParen"
    THEN MissingOperand(toks, i + 1, depth + 1, "operand")
    ELSE IF toks[i].k \in AddOps /\ want \in {"operand", "stmt"}
    THEN MissingOperand(toks, i + 1, depth, "primary")
    ELSE IF want = "stmt" /\ toks[i].k = "Return"
    THEN MissingOperand(toks, i + 1, depth, "operand")
    ELSE IF want = "stmt"
            /\ toks[i].k \in {"EOF", "LeftBrace", "If", "While", "For"}
    THEN 0
    ELSE i

\* The expected set of the claim: [Num(0), Identifier("a"), LeftParen].
OperandExpected == <<TNum(0), TIdent(<<"a">>), Tok("LeftParen")>>

\* C12: where the parser needs an operand and the next token is no number,
\* identifier or "(", it fails with UnexpectedToken, expected [Num(0),
\* Identifier("a"), LeftParen], actual that token, which it has not
\* consumed; "1+;" reports Semicolon and "1+" reports EOF.
C12_MissingOperandReported ==
    /\ (ParseDone /\ MissingOperand(tokens, 1, 0, "stmt") # 0) =>
          /\ phase = "parseerr"
          /\ parsed.err =
                UnexpectedToken(OperandExpected,
                    <<tokens[MissingOperand(tokens, 1, 0, "stmt")]>>)
          /\ parsed.st.pos = MissingOperand(tokens, 1, 0, "stmt")
    /\ (ParseDone /\ src = SrcMissingOperand) =>
          parsed.err = UnexpectedToken(OperandExpected, <<Tok("Semicolon")>>)
    /\ (ParseDone /\ src = SrcMissingAtEnd) =>
          parsed.err = UnexpectedToken(OperandExpected, <<Tok("EOF")>>)

\* "1+" was rejected at its end-of-input marker, the third token.
C12_Witness ==
    /\ phase = "parseerr"
    /\ src = SrcMissingAtEnd
    /\ tokens = <<TNum(1), Tok("Plus"), Tok("EOF")>>
    /\ parsed.err.actual = <<Tok("EOF")>>
    /\ parsed.st.pos = 3

\* ( * was rejected at "*".
C12_WitnessParen ==
    /\ phase = "parseerr"
    /\ tokens = <<Tok("LeftParen"), Tok("Multiply"), Tok("EOF")>>
    /\ parsed.err.actual = <<Tok("Multiply")>>
    /\ parsed.st.pos = 2

\* C13: for every token sequence the parser returns Ok(nodes) or
\* Err(ParserError) and does not panic: a failure at the end of the tokens
\* is NotEnoughTokens, any other is UnexpectedToken for the token at the
\* cursor; a sequence without EOF gives an error, the empty one
\* NotEnoughTokens, and a sequence that starts with EOF is the empty program.
C13_ParserNeverPanics ==
    ParseDone =>
        /\ phase # "parsepanic"
        /\ parsed.ok => parsed.err = NoErr
        /\ ~parsed.ok =>
              /\ parsed.nodes = <<>>
              /\ IF parsed.st.pos > Len(tokens)
                 THEN parsed.err = NotEnoughTokens
                 ELSE /\ parsed.err.e = "UnexpectedToken"
                      /\ parsed.err.actual = <<tokens[parsed.st.pos]>>
        /\ (\A i \in 1..Len(tokens) : tokens[i] # Tok("EOF")) => ~parsed.ok
        /\ tokens = <<>> => parsed.err = NotEnoughTokens
        /\ (tokens # <<>> /\ tokens[1] = Tok("EOF")) =>
              parsed.ok /\ parsed.nodes = <<>>

\* The empty token sequence was parsed: Err(NotEnoughTokens).
C13_Witness ==
    /\ phase = "parseerr"
    /\ src = <<>>
    /\ tokens = <<>>
    /\ parsed.err = NotEnoughTokens

\* 1 + without EOF: Err(NotEnoughTokens) where primary would start.
C13_WitnessNoEof ==
    /\ phase = "parseerr"
    /\ tokens = <<TNum(1), Tok("Plus")>>
    /\ parsed.err = NotEnoughTokens
    /\ parsed.st.pos = 3

\* The control constructs of the nodes in the order the generator meets
\* them, each by its kind: "If", "IfElse", "While" or "For".
RECURSIVE Constructs(_), ConstructsOf(_)
Constructs(node) ==
    CASE node.kind = "If" ->
            <<IF node.els = NoneNode THEN "If" ELSE "IfElse">>
            \o Constructs(node.then) \o Constructs(node.els)
      [] node.kind = "While" -> <<"While">> \o Constructs(node.then)
      [] node.kind = "For" -> <<"For">> \o Constructs(node.then)
      [] node.kind = "Block" -> ConstructsOf(node.stmts)
      [] OTHER -> <<>>

ConstructsOf(nodes) ==
    IF nodes = <<>> THEN <<>>
    ELSE Constructs(Head(nodes)) \o ConstructsOf(Tail(nodes))

\* The lines of the code that define a label, and those that jump.
LabelLines(code) == {i \in 1..Len(code) : code[i].op = "label"}

JumpLines(code) == {i \in 1..Len(code) : code[i].op \in {"je", "jmp"}}

\* The labels a construct defines and the jumps it makes, by its kind.
LabelsOfKind(kind) ==
    CASE kind = "If" -> {"end"}
      [] kind = "IfElse" -> {"else", "end"}
      [] kind \in {"While", "For"} -> {"begin", "end"}

JumpsOfKind(kind) ==
    CASE kind = "If" -> {<<"je", "end">>}
      [] kind = "IfElse" -> {<<"je", "else">>, <<"jmp", "end">>}
      [] kind \in {"While", "For"} -> {<<"je", "end">>, <<"jmp", "begin">>}

\* C14: in the code of a program no label is defined twice, every jump
\* goes to a label defined exactly once, the k-th construct generated has
\* the index k - 1 for its labels and its jumps and no other construct has
\* it, and the counter ends at the number of constructs.
C14_LabelsUnique ==
    Compiled =>
        LET cs == ConstructsOf(parsed.nodes)
        IN  /\ \A i, j \in LabelLines(asm) :
                  (asm[i].lk = asm[j].lk /\ asm[i].n = asm[j].n) => i = j
            /\ \A j \in JumpLines(asm) :
                  Cardinality({i \in LabelLines(asm) :
                                  asm[i].lk = asm[j].lk /\ asm[i].n = asm[j].n})
                      = 1
            /\ \A i \in LabelLines(asm) \cup JumpLines(asm) :
                  asm[i].n \in 0..(Len(cs) - 1)
            /\ \A k \in 1..Len(cs) :
                  /\ {asm[i].lk : i \in {x \in LabelLines(asm) :
                                            asm[x].n = k - 1}}
                        = LabelsOfKind(cs[k])
                  /\ {<<asm[i].op, asm[i].lk>> :
                          i \in {x \in JumpLines(asm) : asm[x].n = k - 1}}
                        = JumpsOfKind(cs[k])
                  /\ Cardinality({x \in JumpLines(asm) : asm[x].n = k - 1})
                        = Cardinality(JumpsOfKind(cs[k]))
            /\ Compile(parsed.nodes).ctr = Len(cs)

\* A program with five constructs, nested and side by side, was compiled:
\* eight lines define labels with the indices 0 to 4.
C14_Witness ==
    /\ Compiled
    /\ Len(ConstructsOf(parsed.nodes)) = 5
    /\ ConstructsOf(parsed.nodes)[3] = "While"
    /\ Cardinality(LabelLines(asm)) = 8
    /\ {asm[i].n : i \in LabelLines(asm)} = 0..4

\* C15 (as stated): the printed form of every AST the parser returns is
\* tokenized and parsed again without error, and the result prints to the
\* same text.
C15_PrintedFormRoundTrips ==
    (ParseDone /\ parsed.ok) =>
        \A checks \in BOOLEAN :
            LET text == DisplayNodes(parsed.nodes)
                again == tokenize(text, checks)
            IN  /\ again.ok
                /\ parse(again.toks).ok
                /\ DisplayNodes(parse(again.toks).nodes) = text

\* The same for the ASTs without variables, return, control constructs
\* and blocks, where the printed form is fully parenthesized arithmetic.
RoundTripsWithoutNames ==
    (ParseDone /\ parsed.ok
        /\ KindsOf(parsed.nodes) \subseteq (BinKinds \cup {"Num"})) =>
        \A checks \in BOOLEAN :
            LET text == DisplayNodes(parsed.nodes)
                again == tokenize(text, checks)
            IN  /\ again.ok
                /\ parse(again.toks).ok
                /\ DisplayNodes(parse(again.toks).nodes) = text

(***************************************************************************)
(* The lexer alone: tokenize on every text of up to MaxSrcLen characters   *)
(* of LexChars and on the texts of LexExamples.                            *)
(***************************************************************************)
MaxSrcLen == 4

LexChars == {"1", "i", "f", "_", "=", "!", "<", " ", "@"}

\* "returnx"
LexReturnx == <<"r", "e", "t", "u", "r", "n", "x">>

\* "xreturn"
LexXreturn == <<"x", "r", "e", "t", "u", "r", "n">>

\* "x return"
LexXSpaceReturn == <<"x", " ", "r", "e", "t", "u", "r", "n">>

\* "return if else while for"
LexKeywords == <<"r", "e", "t", "u", "r", "n", " ", "i", "f", " ", "e", "l", "s", "e", " ", "w", "h", "i", "l", "e", " ", "f", "o", "r">>

\* "1>=2>3"
LexGreater == <<"1", ">", "=", "2", ">", "3">>

\* ">=="
LexGreaterEqEq == <<">", "=", "=">>

\* "1+2!"
LexBangAtEnd == <<"1", "+", "2", "!">>

\* "1 _a"
LexUnderscoreWord == <<"1", " ", "_", "a">>

\* "a=1;["
LexBracket == <<"a", "=", "1", ";", "[">>

\* "4294967295"
LexMaxU32 == <<"4", "2", "9", "4", "9", "6", "7", "2", "9", "5">>

\* "4294967296"
LexTooLarge == <<"4", "2", "9", "4", "9", "6", "7", "2", "9", "6">>

\* "2147483648"
LexHalfU32 == <<"2", "1", "4", "7", "4", "8", "3", "6", "4", "8">>

\* "99999999999"
LexFarTooLarge == <<"9", "9", "9", "9", "9", "9", "9", "9", "9", "9", "9">>

\* "00042;"
LexLeadingZeros == <<"0", "0", "0", "4", "2", ";">>

\* "12ab 7"
LexDigitsThenWord == <<"1", "2", "a", "b", " ", "7">>

LexExamples ==
    {LexReturnx, LexXreturn, LexXSpaceReturn, LexKeywords,
     LexGreater, LexGreaterEqEq, LexBangAtEnd, LexUnderscoreWord,
     LexBracket, LexMaxU32, LexTooLarge, LexHalfU32,
     LexFarTooLarge, LexLeadingZeros, LexDigitsThenWord}

LexSources ==
    UNION {[1..n -> LexChars] : n \in 0..MaxSrcLen} \cup LexExamples

InitLex ==
    /\ phase = "lex"
    /\ src \in LexSources
    /\ tokens = <<>>
    /\ parsed = NoParse
    /\ asm = <<>>
    /\ m = IdleMachine
    /\ locals = <<>>
    /\ calls = <<>>
    /\ last = LocalVar(<<>>, 0)
    /\ gen = NewGen
    /\ call = NoCall
    /\ args = <<>>
    /\ token_iter = 0

NextLex == Tokenize

SpecLex == InitLex /\ [][NextLex]_vars

\* tokenize has returned; it has returned or panicked.
LexOk == phase = "parse"

LexDone == phase \in {"parse", "lexpanic"}

\* The text behind the first n characters of src is tokenized to rest in
\* some build, and src to tok followed by rest; or neither is tokenized.
HeadIs(tok, n) ==
    \E checks \in BOOLEAN :
        LET rest == tokenize(SubSeq(src, n + 1, Len(src)), checks)
        IN  /\ rest.ok <=> LexOk
            /\ LexOk => tokens = <<tok>> \o rest.toks

\* C16: the tokens tokenize returns end with EOF, which occurs nowhere
\* else; the tokens are in the order of the source: those of the text
\* before a whitespace character, then those of the text behind it; an
\* empty or all-whitespace text gives [EOF].
C16_EndsWithEof ==
    LexOk =>
        /\ tokens # <<>>
        /\ \A i \in 1..Len(tokens) : tokens[i] = Tok("EOF") <=> i = Len(tokens)
        /\ \A i \in 1..Len(src) :
              src[i] \in {" ", "\n", "\t"} =>
                  \E checks \in BOOLEAN :
                      LET before == tokenize(SubSeq(src, 1, i - 1), checks)
                          behind == tokenize(SubSeq(src, i + 1, Len(src)),
                                             checks)
                      IN  /\ before.ok
                          /\ behind.ok
                          /\ tokens = SubSeq(before.toks, 1,
                                             Len(before.toks) - 1)
                                      \o behind.toks
        /\ (\A i \in 1..Len(src) : src[i] = " ") => tokens = <<Tok("EOF")>>

\* "x return" was tokenized to x, Return, EOF.
C16_Witness ==
    /\ LexOk
    /\ src = LexXSpaceReturn
    /\ tokens = <<TIdent(<<"x">>), Tok("Return"), Tok("EOF")>>

\* Three blanks were tokenized to [EOF].
C16_WitnessBlank ==
    /\ LexOk
    /\ src = <<" ", " ", " ">>
    /\ tokens = <<Tok("EOF")>>

\* The tokens of the claim C17 for "=", "<", ">" alone and followed by "=".
OneChar(c) ==
    CASE c = "=" -> Tok("Assign")
      [] c = "<" -> Tok("LessThan")
      [] c = ">" -> Tok("GreaterThan")

WithEq(c) ==
    CASE c = "=" -> Tok("Equal")
      [] c = "<" -> Tok("LessThanOrEqual")
      [] c = ">" -> Tok("GreaterThanOrEqual")
      [] c = "!" -> Tok("NotEqual")

\* C17: a text that starts with "=", "<" or ">" followed by "=" gives
\* Equal, LessThanOrEqual or GreaterThanOrEqual and then the tokens of the
\* text behind the two characters; otherwise Assign, LessThan or
\* GreaterThan and the tokens of the text behind the one character; "!="
\* gives NotEqual.
C17_OperatorLookahead ==
    (LexDone /\ src # <<>> /\ src[1] \in {"=", "<", ">", "!"}) =>
        IF Len(src) >= 2 /\ src[2] = "="
        THEN HeadIs(WithEq(src[1]), 2)
        ELSE src[1] # "!" => HeadIs(OneChar(src[1]), 1)

\* "<==" was tokenized to LessThanOrEqual, Assign, EOF.
C17_Witness ==
    /\ LexOk
    /\ src = <<"<", "=", "=">>
    /\ tokens = <<Tok("LessThanOrEqual"), Tok("Assign"), Tok("EOF")>>

\* ">==" was tokenized to GreaterThanOrEqual, Assign, EOF.
C17_WitnessGreater ==
    /\ LexOk
    /\ src = LexGreaterEqEq
    /\ tokens = <<Tok("GreaterThanOrEqual"), Tok("Assign"), Tok("EOF")>>

\* The first position from i on whose character is not in chars.
RECURSIVE RunEnd(_, _, _)
RunEnd(cs, i, chars) ==
    IF i <= Len(cs) /\ cs[i] \in chars THEN RunEnd(cs, i + 1, chars) ELSE i

Letters ==
    {"a", "b", "c", "d", "e", "f", "g", "h", "i", "j", "k", "l", "m", "n",
     "o", "p", "q", "r", "s", "t", "u", "v", "w", "x", "y", "z",
     "A", "B", "Z"}

DecimalDigits == {"0", "1", "2", "3", "4", "5", "6", "7", "8", "9"}

WordChars == Letters \cup DecimalDigits \cup {"_"}

\* The token of a whole word.
WordToken(word) ==
    IF word = <<"r", "e", "t", "u", "r", "n">> THEN Tok("Return")
    ELSE IF word = <<"i", "f">> THEN Tok("If")
    ELSE IF word = <<"e", "l", "s", "e">> THEN Tok("Else")
    ELSE IF word = <<"w", "h", "i", "l", "e">> THEN Tok("While")
    ELSE IF word = <<"f", "o", "r">> THEN Tok("For")
    ELSE TIdent(word)

\* C18: a text that starts with a letter gives the token of its longest
\* run of letters, digits and underscores, then the tokens of the text
\* behind the run; the token is a reserved word only when the whole run is
\* return, if, else, while or for, and otherwise an Identifier with the
\* whole run.  "returnx" and "xreturn" are identifiers, "x return" is an
\* identifier and Return.
C18_WordsAndReservedWords ==
    /\ (LexDone /\ src # <<>> /\ src[1] \in Letters) =>
           LET n == RunEnd(src, 1, WordChars) - 1
           IN  HeadIs(WordToken(SubSeq(src, 1, n)), n)
    /\ (LexDone /\ src = LexReturnx) =>
           tokens = <<TIdent(LexReturnx), Tok("EOF")>>
    /\ (LexDone /\ src = LexXreturn) =>
           tokens = <<TIdent(LexXreturn), Tok("EOF")>>
    /\ (LexDone /\ src = LexXSpaceReturn) =>
           tokens = <<TIdent(<<"x">>), Tok("Return"), Tok("EOF")>>

\* "if_1" was tokenized to one identifier.
C18_Witness ==
    /\ LexOk
    /\ src = <<"i", "f", "_", "1">>
    /\ tokens = <<TIdent(<<"i", "f", "_", "1">>), Tok("EOF")>>

\* "if=" was tokenized to If, Assign, EOF.
C18_WitnessReserved ==
    /\ LexOk
    /\ src = <<"i", "f", "=">>
    /\ tokens = <<Tok("If"), Tok("Assign"), Tok("EOF")>>

\* "returnx" was tokenized to one identifier.
C18_WitnessReturnx ==
    /\ LexOk
    /\ src = LexReturnx
    /\ tokens = <<TIdent(LexReturnx), Tok("EOF")>>

\* Reading cs from position i meets "!" without "=" behind it, or a
\* character that is no whitespace, digit, letter or operator character
\* where a token must start.
RECURSIVE LexFails(_, _)
LexFails(cs, i) ==
    IF i > Len(cs) THEN FALSE
    ELSE LET c == cs[i]
             eq == i < Len(cs) /\ cs[i + 1] = "="
         IN  IF c = "!" THEN ~eq \/ LexFails(cs, i + 2)
             ELSE IF c \in {"=", "<", ">"}
             THEN LexFails(cs, IF eq THEN i + 2 ELSE i + 1)
             ELSE IF c \in Letters THEN LexFails(cs, RunEnd(cs, i, WordChars))
             ELSE IF c \in DecimalDigits
             THEN LexFails(cs, RunEnd(cs, i, DecimalDigits))
             ELSE IF c \in {" ", "\n", "\t", "+", "-", "*", "/", "(", ")",
                            "{", "}", ";"}
             THEN LexFails(cs, i + 1)
             ELSE TRUE

\* Every run of digits of cs is shorter than ten digits.
ShortNumbers(cs) ==
    \A i \in 1..Len(cs) : RunEnd(cs, i, DecimalDigits) - i < 10

\* C19: tokenize panics exactly when the text has "!" not followed by "="
\* or a character that is no whitespace, digit, letter or one of
\* + - * / ( ) { } ; = ! < > where a token must start, and then it returns
\* no tokens, those scanned before the character included.
C19_LexicalErrorsFatal ==
    (LexDone /\ ShortNumbers(src)) =>
        /\ LexFails(src, 1) <=> phase = "lexpanic"
        /\ phase = "lexpanic" => tokens = <<>>

\* "1+2!" panicked behind three tokens.
C19_Witness ==
    /\ phase = "lexpanic"
    /\ src = LexBangAtEnd
    /\ tokens = <<>>

\* "1 _a" panicked on the underscore that starts a word.
C19_WitnessUnderscore ==
    /\ phase = "lexpanic"
    /\ src = LexUnderscoreWord
    /\ tokens = <<>>

\* "a=1;[" panicked on the bracket.
C19_WitnessBracket ==
    /\ phase = "lexpanic"
    /\ src = LexBracket
    /\ tokens = <<>>

\* cs without its leading zeros.
RECURSIVE StripZeros(_)
StripZeros(cs) ==
    IF cs # <<>> /\ cs[1] = "0" THEN StripZeros(Tail(cs)) ELSE cs

DigitValue(c) ==
    CHOOSE d \in 0..9 :
        <<"0", "1", "2", "3", "4", "5", "6", "7", "8", "9">>[d + 1] = c

\* a <= b for digit sequences of one length.
RECURSIVE DigitsLeq(_, _)
DigitsLeq(a, b) ==
    \/ a = <<>>
    \/ DigitValue(a[1]) < DigitValue(b[1])
    \/ a[1] = b[1] /\ DigitsLeq(Tail(a), Tail(b))

\* 4294967295 = 2^32 - 1 and 2147483647 = 2^31 - 1.
MaxU32Text == <<"4", "2", "9", "4", "9", "6", "7", "2", "9", "5">>

MaxI32Text == <<"2", "1", "4", "7", "4", "8", "3", "6", "4", "7">>

\* The decimal value of the run fits in an unsigned 32-bit integer.
Fits(run) ==
    LET s == StripZeros(run)
    IN  Len(s) < 10 \/ (Len(s) = 10 /\ DigitsLeq(s, MaxU32Text))

RECURSIVE Decimal(_)
Decimal(s) ==
    IF s = <<>> THEN 0
    ELSE 10 * Decimal(SubSeq(s, 1, Len(s) - 1)) + DigitValue(s[Len(s)])

\* The decimal value of a run that fits, as a token holds it: the value
\* below 2^31, the value minus 2^32 = 10 * 429496729 + 6 from there on.
DecimalValue(run) ==
    LET s == StripZeros(run)
    IN  IF Len(s) < 10 \/ DigitsLeq(s, MaxI32Text) THEN Decimal(s)
        ELSE 10 * (Decimal(SubSeq(s, 1, 9)) - 429496728)
             + (DigitValue(s[10]) - 16)

\* C20: a text that starts with a digit gives, when the value of its
\* longest run of digits fits in 32 bits, one Num with that value and then
\* the tokens of the text from the first non-digit on; when the value does
\* not fit, tokenize signals it and returns no Num with a wrapped value.
C20_LiteralTooLargeSignalled ==
    (LexDone /\ src # <<>> /\ src[1] \in DecimalDigits) =>
        LET n == RunEnd(src, 1, DecimalDigits) - 1
            run == SubSeq(src, 1, n)
        IN  IF Fits(run) THEN HeadIs(TNum(DecimalValue(run)), n)
            ELSE phase = "lexpanic"

\* The part of C20 about the runs that fit.
NumbersThatFit ==
    (LexDone /\ src # <<>> /\ src[1] \in DecimalDigits) =>
        LET n == RunEnd(src, 1, DecimalDigits) - 1
            run == SubSeq(src, 1, n)
        IN  Fits(run) => HeadIs(TNum(DecimalValue(run)), n)

\* "4294967296" is never tokenized to a Num.
TooLargeNeverWraps ==
    ~(LexOk /\ src = LexTooLarge /\ tokens = <<TNum(0), Tok("EOF")>>)

\* "4294967295" and "2147483648" were tokenized to their values.
LargestNumbersScanned ==
    /\ (LexDone /\ src = LexMaxU32) => tokens = <<TNum(-1), Tok("EOF")>>
    /\ (LexDone /\ src = LexHalfU32) =>
           tokens = <<TNum(-2147483647 - 1), Tok("EOF")>>

(***************************************************************************)
(* The code generator on a sink that fails: a generator is made on a sink  *)
(* that accepts some number of writes and fails from then on, and the      *)
(* functions of CodeGen are called on it, in any order.  gen is the        *)
(* generator, call the last call made: its name, the generator before it   *)
(* and the number of calls made so far.                                    *)
(***************************************************************************)
MaxGenCalls == 2

MaxAccepts == 24

SinkErrors == {"BrokenPipe", "StorageFull"}

SinkPrograms ==
    {<<>>,
     <<Num(1)>>,
     <<Bin("Add", Num(1), Num(2)), Lvar(VarA)>>,
     <<Bin("Assign", Lvar(VarA), Num(1)), Return(Lvar(VarA))>>,
     <<If(Num(1), Num(7), Num(8))>>,
     <<If(Num(1), Num(7), NoneNode)>>,
     <<While(Num(0), Block(<<Num(7), Num(8)>>))>>,
     <<For(Bin("Assign", Lvar(VarA), Num(0)), Bin("Lt", Lvar(VarA), Num(2)),
           Incr, Num(7))>>}

InitSink ==
    /\ phase = "sink"
    /\ src = <<>>
    /\ tokens = <<>>
    /\ \E nodes \in SinkPrograms :
          parsed = [ok |-> TRUE, nodes |-> nodes, err |-> NoErr,
                    st |-> NewParser]
    /\ asm = <<>>
    /\ m = IdleMachine
    /\ locals = <<>>
    /\ calls = <<>>
    /\ last = LocalVar(<<>>, 0)
    /\ \E accepts \in 0..MaxAccepts, error \in SinkErrors :
          gen = GenOn(accepts, error)
    /\ call = NoCall
    /\ args = <<>>
    /\ token_iter = 0

\* The generator as a call finds it: the call has no error to return yet.
Entry(g) == [g EXCEPT !.io = NoIoError]

\* A call of the function op that leaves the generator as after.
SinkCall(op, after) ==
    /\ phase = "sink"
    /\ call.count < MaxGenCalls
    /\ gen' = after
    /\ call' = [op |-> op, before |-> gen, count |-> call.count + 1]
    /\ UNCHANGED <<phase, src, tokens, parsed, asm, m, locals, calls, last,
                   args, token_iter>>

Prefix == SinkCall("prefix", prefix(Entry(gen)))

Prologue == SinkCall("prologue", prologue(Entry(gen)))

GenFromNodes ==
    SinkCall("gen_from_nodes", gen_from_nodes(parsed.nodes, 1, Entry(gen)))

Epilogue == SinkCall("epilogue", epilogue(Entry(gen)))

NextSink == Prefix \/ Prologue \/ GenFromNodes \/ Epilogue

SpecSink == InitSink /\ [][NextSink]_vars

\* The lines the call op writes from the generator g when no write fails.
LinesOf(op, g) ==
    LET reliable == [Entry(g) EXCEPT !.sink = Unlimited]
        after == CASE op = "prefix" -> prefix(reliable)
                   [] op = "prologue" -> prologue(reliable)
                   [] op = "gen_from_nodes" ->
                        gen_from_nodes(parsed.nodes, 1, reliable)
                   [] op = "epilogue" -> epilogue(reliable)
    IN  SubSeq(after.code, Len(g.code) + 1, Len(after.code))

\* C21: a call of prefix, prologue, gen_from_nodes or epilogue on a sink
\* that accepts k more writes writes its lines and returns Ok if they are
\* at most k; otherwise it writes the first k of them, makes the one write
\* that fails and no write after it, and returns the error of the sink.
C21_IoErrorPropagated ==
    (phase = "sink" /\ call.op # "") =>
        LET out == LinesOf(call.op, call.before)
            k == call.before.sink
        IN  IF Len(out) <= k
            THEN /\ gen.io = NoIoError
                 /\ gen.code = call.before.code \o out
                 /\ gen.writes = call.before.writes + Len(out)
            ELSE /\ gen.io = call.before.fails
                 /\ gen.code = call.before.code \o SubSeq(out, 1, k)
                 /\ gen.writes = call.before.writes + k + 1

\* gen_from_nodes returned the error of the sink from inside the code of a
\* for statement, behind a prologue that was written whole.
C21_Witness ==
    /\ phase = "sink"
    /\ call.op = "gen_from_nodes"
    /\ call.before.code = prologue(NewGen).code
    /\ Len(parsed.nodes) = 1
    /\ parsed.nodes[1].kind = "For"
    /\ gen.io = "StorageFull"
    /\ Len(gen.code) = Len(call.before.code) + 7
    /\ gen.writes = Len(gen.code) + 1

\* prefix returned the error of the sink at its first write.
C21_WitnessFirstWrite ==
    /\ phase = "sink"
    /\ call.op = "prefix"
    /\ call.count = 1
    /\ gen.io = "BrokenPipe"
    /\ gen.code = <<>>
    /\ gen.writes = 1

(***************************************************************************)
(* main.rs: the entry point, run on an argument vector.  args is           *)
(* env::args() (the program's name first), token_iter the index in tokens  *)
(* of the token that token_iter.next() returns next, asm the lines printed *)
(* to standard output.  phase is "main" before main runs, "preamble" when  *)
(* the tokens are made, "loop" in the while loop, "done" when main has     *)
(* returned Ok and "mainpanic" when it has panicked.                       *)
(***************************************************************************)
MaxArgLen == 3

ArgChars == {"1", "+", "-", ";"}

ProgramName == <<"r", "u", "s", "t", "9", "c", "c">>

\* "1+2"
ArgOnePlusTwo == <<"1", "+", "2">>

\* "12 + 3 - 4"
ArgSpaced == <<"1", "2", " ", "+", " ", "3", " ", "-", " ", "4">>

\* "1+2;"
ArgStatement == <<"1", "+", "2", ";">>

\* "a=1; return a;"
ArgReturn == <<"a", "=", "1", ";", " ", "r", "e", "t", "u", "r", "n", " ", "a", ";">>

\* "1 ! 2"
ArgBadChar == <<"1", " ", "!", " ", "2">>

ArgTexts ==
    UNION {[1..n -> ArgChars] : n \in 0..MaxArgLen}
    \cup {ArgOnePlusTwo, ArgSpaced, ArgStatement, ArgReturn, ArgBadChar}

ArgVectors ==
    {<<ProgramName>>, <<ProgramName, ArgOnePlusTwo, ArgOnePlusTwo>>}
    \cup {<<ProgramName, text>> : text \in ArgTexts}

InitMain ==
    /\ phase = "main"
    /\ src = <<>>
    /\ tokens = <<>>
    /\ parsed = NoParse
    /\ asm = <<>>
    /\ m = IdleMachine
    /\ locals = <<>>
    /\ calls = <<>>
    /\ last = LocalVar(<<>>, 0)
    /\ gen = NewGen
    /\ call = NoCall
    /\ args \in ArgVectors
    /\ token_iter = 0

\* lexer::expect_number on the tokens from index i: the next token is
\* taken, and it is the result if it is a number.
expect_number(toks, i) ==
    IF i <= Len(toks) /\ toks[i].k = "Num"
    THEN [ok |-> TRUE, val |-> toks[i].v, pos |-> i + 1]
    ELSE [ok |-> FALSE, val |-> 0, pos |-> IF i <= Len(toks) THEN i + 1 ELSE i]

\* main up to the tokens: the number of arguments is checked and the
\* argument tokenized.
MainTokenize ==
    /\ phase = "main"
    /\ \E checks \in BOOLEAN :
          LET r == IF Len(args) = 2 THEN tokenize(args[2], checks)
                   ELSE [ok |-> FALSE, toks |-> <<>>]
          IN  /\ tokens' = r.toks
              /\ phase' = IF r.ok THEN "preamble" ELSE "mainpanic"
              /\ token_iter' = IF r.ok THEN 1 ELSE token_iter
    /\ UNCHANGED <<src, parsed, asm, m, locals, calls, last, gen, call, args>>

\* main prints the first lines and the first number.
MainPreamble ==
    /\ phase = "preamble"
    /\ LET first == expect_number(tokens, token_iter)
           lines == <<I(".intel_syntax noprefix"), I(".globl main"),
                      I("main:")>>
       IN  /\ asm' = IF first.ok
                     THEN asm \o lines \o <<In("mov rax,", first.val)>>
                     ELSE asm \o lines
           /\ token_iter' = first.pos
           /\ phase' = IF first.ok THEN "loop" ELSE "mainpanic"
    /\ UNCHANGED <<src, tokens, parsed, m, locals, calls, last, gen, call,
                   args>>

\* One turn of main's while loop, or its end when the tokens are used up.
MainLoop ==
    /\ phase = "loop"
    /\ IF token_iter > Len(tokens)
       THEN /\ asm' = Append(asm, I("ret"))
            /\ phase' = "done"
            /\ token_iter' = token_iter
       ELSE LET token == tokens[token_iter]
                number == expect_number(tokens, token_iter + 1)
            IN  IF token \in {Tok("Minus"), Tok("Plus")}
                THEN /\ asm' = IF ~number.ok THEN asm
                               ELSE IF token = Tok("Minus")
                               THEN Append(asm, In("sub rax,", number.val))
                               ELSE Append(asm, In("add rax,", number.val))
                     /\ phase' = IF number.ok THEN "loop" ELSE "mainpanic"
                     /\ token_iter' = number.pos
                ELSE /\ asm' = asm
                     /\ phase' = "mainpanic"
                     /\ token_iter' = token_iter + 1
    /\ UNCHANGED <<src, tokens, parsed, m, locals, calls, last, gen, call,
                   args>>

NextMain == MainTokenize \/ MainPreamble \/ MainLoop

SpecMain == InitMain /\ [][NextMain]_vars

\* Lines is the code before and behind some lines in between.
Frames(lines, before, behind) ==
    /\ Len(lines) >= Len(before) + Len(behind)
    /\ SubSeq(lines, 1, Len(before)) = before
    /\ SubSeq(lines, Len(lines) - Len(behind) + 1, Len(lines)) = behind

\* C22: run with the one argument "1+2", main does not panic, and when it
\* has returned, the lines it printed are the preamble with main: and the
\* prologue, then lines of the statement, then the epilogue that ends
\* in ret.
C22_MainWritesAssembly ==
    args = <<ProgramName, ArgOnePlusTwo>> =>
        /\ phase # "mainpanic"
        /\ phase = "done" =>
              Frames(asm, prologue(prefix(NewGen)).code, epilogue(NewGen).code)

\* main never returns, whatever its arguments.
MainNeverReturns == phase # "done"

\* main has panicked on the EOF token behind "1+2", the preamble and two
\* instructions printed.
MainPanicsAtEof ==
    ~ /\ args = <<ProgramName, ArgOnePlusTwo>>
      /\ phase = "mainpanic"
      /\ token_iter = 5
      /\ asm = <<I(".intel_syntax noprefix"), I(".globl main"), I("main:"),
                 In("mov rax,", 1), In("add rax,", 2)>>

(***************************************************************************)
(* The frame of main while the generated code runs.                        *)
(***************************************************************************)
\* The machine is in the statements: behind the prologue, and not in the
\* two lines behind a mov rsp, rbp that leave main.
InStatements ==
    /\ Compiled
    /\ m.st = "running"
    /\ m.pc \in BodyStart..Len(asm)
    /\ asm[m.pc].op \notin {"pop rbp", "ret"}

\* C23: while the statements run, rsp is at most rbp - 208, the end of the
\* variables' slots, so the evaluation stack stays below the frame.
C23_StackBelowFrame == InStatements => m.rsp <= StmtRsp

\* No push of a statement writes at rbp - 208 or above, into a variable's
\* slot, the saved rbp or the return address.
PushesBelowFrame ==
    [][(InStatements /\ m'.rsp = m.rsp - 8) => m'.rsp < StmtRsp]_vars

\* if (0) 7; has run: its discarding pop rax has taken a word of the frame.
FrameWordPopped ==
    ~ /\ Compiled
      /\ parsed.nodes = <<If(Num(0), Num(7), NoneNode)>>
      /\ m.st = "running"
      /\ asm[m.pc] = I("mov rsp, rbp")
      /\ m.rsp = StmtRsp + 8

(***************************************************************************)
(* The values of expressions: what the source language means by them, to   *)
(* compare with what the generated code computes.                          *)
(***************************************************************************)
\* The quotient of a by b # 0, rounded towards zero.
Quotient(a, b) ==
    IF a >= 0 /\ b > 0 THEN a \div b
    ELSE IF a < 0 /\ b > 0 THEN -((-a) \div b)
    ELSE IF a >= 0 /\ b < 0 THEN -(a \div (-b))
    ELSE (-a) \div (-b)

Truth(b) == IF b THEN 1 ELSE 0

\* left op right
Apply(kind, left, right) ==
    CASE kind = "Add" -> left + right
      [] kind = "Sub" -> left - right
      [] kind = "Mul" -> left * right
      [] kind = "Div" -> IF right = 0 THEN 0 ELSE Quotient(left, right)
      [] kind = "Lt" -> Truth(left < right)
      [] kind = "Le" -> Truth(left <= right)
      [] kind = "Eq" -> Truth(left = right)
      [] kind = "Ne" -> Truth(left # right)

\* The value of the expression e where the variable a holds a: [val, a, ok]
\* with the value, what a holds afterwards, and whether every division had
\* a divisor other than zero.  Operands are evaluated from left to right.
RECURSIVE Value(_, _)
Value(e, a) ==
    IF e.kind = "Num" THEN [val |-> e.val, a |-> a, ok |-> TRUE]
    ELSE IF e.kind = "Lvar" THEN [val |-> a, a |-> a, ok |-> TRUE]
    ELSE IF e.kind = "Assign"
    THEN LET r == Value(e.r, a)
         IN  [val |-> r.val, a |-> r.val, ok |-> r.ok]
    ELSE LET l == Value(e.l, a)
             r == Value(e.r, l.a)
         IN  [val |-> Apply(e.kind, l.val, r.val), a |-> r.a,
              ok |-> l.ok /\ r.ok /\ (e.kind = "Div" => r.val # 0)]

\* The machine is behind the code of the only statement, at its pop rax.
AtEndOfStatement ==
    /\ Compiled
    /\ Len(parsed.nodes) = 1
    /\ m.st = "running"
    /\ m.pc = BodyStart + CodeLen(parsed.nodes[1])

\* C24: behind the code of a binary node the one word pushed is
\* left op right, with the left operand evaluated before the right one,
\* rdi holds the right operand's value, and the relational operators have
\* pushed 0 or 1.
C24_BinaryOperators ==
    (AtEndOfStatement /\ parsed.nodes[1].kind \in ValueKinds) =>
        \E a \in Garbage :
            LET e == parsed.nodes[1]
                l == Value(e.l, a)
                r == Value(e.r, l.a)
            IN  /\ l.ok /\ r.ok
                /\ e.kind = "Div" => r.val # 0
                /\ m.rsp = StmtRsp - 8
                /\ m.mem[m.rsp] = Apply(e.kind, l.val, r.val)
                /\ m.rdi = r.val
                /\ e.kind \in {"Lt", "Le", "Eq", "Ne"} => m.mem[m.rsp] \in {0, 1}

\* (0 - 2) / (a = 2) has pushed -1.
C24_Witness ==
    /\ AtEndOfStatement
    /\ parsed.nodes[1] = Bin("Div", Bin("Sub", Num(0), Num(2)),
                                    Bin("Assign", Lvar(VarA), Num(2)))
    /\ m.mem[m.rsp] = -1
    /\ m.rdi = 2

\* (a = 2) < a has pushed 0: the assignment on the left came first.
C24_WitnessOrder ==
    /\ AtEndOfStatement
    /\ parsed.nodes[1] = Bin("Lt", Bin("Assign", Lvar(VarA), Num(2)),
                                   Lvar(VarA))
    /\ m.mem[m.rsp] = 0

\* 1 - 2 has pushed -1.
C24_WitnessSub ==
    /\ AtEndOfStatement
    /\ parsed.nodes[1] = Bin("Sub", Num(1), Num(2))
    /\ m.mem[m.rsp] = -1

\* The offsets of the variables of the programs of SpecGen.
Offsets == {VarA.offset, VarB.offset}

\* The address of the slot of the variable at offset o: rbp - o, where rbp
\* is rsp behind the push rbp of the prologue.
SlotOf(o) == (0 - 8) - o

\* The value of the expression e where the variables hold env (a function
\* of their offsets): [val, env] with the value and what the variables
\* hold afterwards.  Operands are evaluated from left to right.
RECURSIVE ValueIn(_, _)
ValueIn(e, env) ==
    IF e.kind = "Num" THEN [val |-> e.val, env |-> env]
    ELSE IF e.kind = "Lvar" THEN [val |-> env[e.var.offset], env |-> env]
    ELSE IF e.kind = "Assign"
    THEN LET r == ValueIn(e.r, env)
         IN  [val |-> r.val,
              env |-> [r.env EXCEPT ![e.l.var.offset] = r.val]]
    ELSE LET l == ValueIn(e.l, env)
             r == ValueIn(e.r, l.env)
         IN  [val |-> Apply(e.kind, l.val, r.val), env |-> r.env]

\* What the variables hold behind the first n of the expression statements.
RECURSIVE EnvAfter(_, _, _)
EnvAfter(nodes, n, env) ==
    IF n = 0 THEN env
    ELSE ValueIn(nodes[n], EnvAfter(nodes, n - 1, env)).env

\* The offsets of the variables assigned in the expression e.
RECURSIVE AssignedIn(_)
AssignedIn(e) ==
    IF e.kind \in {"Num", "Lvar"} THEN {}
    ELSE IF e.kind = "Assign"
    THEN {e.l.var.offset} \cup AssignedIn(e.r)
    ELSE AssignedIn(e.l) \cup AssignedIn(e.r)

\* Divisions are left to C24.
RECURSIVE DivisionFree(_)
DivisionFree(e) ==
    \/ e.kind \in {"Num", "Lvar"}
    \/ /\ e.kind # "Div"
       /\ e.kind = "Assign" \/ DivisionFree(e.l)
       /\ DivisionFree(e.r)

\* The program is a sequence of expression statements that ends with an
\* assignment to a variable, and the machine is behind the code of the
\* assignment, at its pop rax.
AtEndOfAssignment ==
    /\ Compiled
    /\ parsed.nodes # <<>>
    /\ \A i \in 1..Len(parsed.nodes) :
          IsExpr(parsed.nodes[i]) /\ DivisionFree(parsed.nodes[i])
    /\ parsed.nodes[Len(parsed.nodes)].kind = "Assign"
    /\ m.st = "running"
    /\ m.pc = StmtStart(parsed.nodes, Len(parsed.nodes))
              + CodeLen(parsed.nodes[Len(parsed.nodes)])

\* C25: behind the code of v = E the slot of v at rbp - offset holds the
\* value of E, the one word on the stack is that value, and the slot of
\* every variable assigned neither in E nor by this assignment holds what
\* it held before.
C25_AssignmentStores ==
    AtEndOfAssignment =>
        \E env \in [Offsets -> Garbage] :
            LET n == Len(parsed.nodes)
                e == parsed.nodes[n]
                before == EnvAfter(parsed.nodes, n - 1, env)
                r == ValueIn(e.r, before)
            IN  /\ m.rsp = StmtRsp - 8
                /\ m.mem[m.rsp] = r.val
                /\ m.mem[SlotOf(e.l.var.offset)] = r.val
                /\ \A o \in Offsets \ AssignedIn(e) :
                      SlotOf(o) \in DOMAIN m.mem =>
                          m.mem[SlotOf(o)] = before[o]

\* a = b = 3 behind b = 1 has set a and b to 3 and left 3 on the stack.
C25_Witness ==
    /\ AtEndOfAssignment
    /\ parsed.nodes[Len(parsed.nodes)] =
          Bin("Assign", Lvar(VarA), Bin("Assign", Lvar(VarB), Num(3)))
    /\ m.mem[SlotOf(VarA.offset)] = 3
    /\ m.mem[SlotOf(VarB.offset)] = 3
    /\ m.mem[m.rsp] = 3

\* a = 2 behind b = 1 has left b at 1.
C25_WitnessOther ==
    /\ AtEndOfAssignment
    /\ parsed.nodes = <<Bin("Assign", Lvar(VarB), Num(1)),
                        Bin("Assign", Lvar(VarA), Num(2))>>
    /\ m.mem[SlotOf(VarA.offset)] = 2
    /\ m.mem[SlotOf(VarB.offset)] = 1

(***************************************************************************)
(* The code of an if statement that is the only statement: the lines of    *)
(* the condition from BodyStart, the three lines of the check, the lines   *)
(* of the then-branch and, with an else, the jump over it, its label and   *)
(* its lines; the end label is the last line.                              *)
(***************************************************************************)
OnlyIf ==
    /\ Compiled
    /\ Len(parsed.nodes) = 1
    /\ parsed.nodes[1].kind = "If"

\* The line of the je of the check.
IfCheck == BodyStart + CodeLen(parsed.nodes[1].cond) + 2

IfThen == IfCheck + 1

\* The line behind the then-branch: the jmp over the else-branch, or the
\* end label without one.
IfThenEnd == IfThen + CodeLen(parsed.nodes[1].then)

\* The label of the else-branch.
IfElse == IfThenEnd + 1

IfEnd == BodyStart + CodeLen(parsed.nodes[1]) - 1

HasElse == parsed.nodes[1].els # NoneNode

\* The value of the condition when it is evaluated: the variable holds
\* what its slot holds, or was never read.
CondValue ==
    Value(parsed.nodes[1].cond,
          IF SlotOf(VarA.offset) \in DOMAIN m.mem
          THEN m.mem[SlotOf(VarA.offset)] ELSE 0).val

\* The condition has no variable, so its value is the same at all times.
ConstantCond == parsed.nodes[1].cond.kind # "Lvar"

\* A step of the code of the if statement: the check continues with the
\* then-branch for a value other than zero, and for zero with the
\* else-branch or, without one, behind the statement; the then-branch
\* continues behind the statement; and, for a constant condition, the
\* machine is in the then-branch only for a value other than zero and in
\* the else-branch only for zero.
IfStep ==
    (OnlyIf /\ m.st = "running" /\ m' # m) =>
        /\ m.pc = IfCheck =>
              /\ m.rax = CondValue
              /\ m'.pc = IF CondValue # 0 THEN IfThen
                         ELSE IF HasElse THEN IfElse ELSE IfEnd
        /\ (HasElse /\ m.pc = IfThenEnd) => m'.pc = IfEnd
        /\ (ConstantCond /\ m.pc \in IfThen..(IfThenEnd - 1)) => CondValue # 0
        /\ (ConstantCond /\ HasElse /\ m.pc \in IfElse..(IfEnd - 1))
              => CondValue = 0

\* C26: in the code of if and if/else the then-branch runs if and only if
\* the value of the condition is not zero, the else-branch if and only if
\* it is zero, never both, and execution goes on at the end label.
C26_IfBranches == [][IfStep]_vars

\* if (0 - 2) 7; else a = 1; is at its end label with 7 pushed and a never
\* written.
C26_Witness ==
    /\ OnlyIf
    /\ parsed.nodes[1] = If(Bin("Sub", Num(0), Num(2)), Num(7),
                            Bin("Assign", Lvar(VarA), Num(1)))
    /\ m.st = "running"
    /\ m.pc = IfEnd
    /\ m.mem[m.rsp] = 7
    /\ SlotOf(VarA.offset) \notin DOMAIN m.mem

\* if (a) 7; else a = 1; with a = 0 is at its end label with a = 1.
C26_WitnessElse ==
    /\ OnlyIf
    /\ parsed.nodes[1] = If(Lvar(VarA), Num(7),
                            Bin("Assign", Lvar(VarA), Num(1)))
    /\ m.st = "running"
    /\ m.pc = IfEnd
    /\ m.rsp = StmtRsp - 8
    /\ m.mem[m.rsp] = 1
    /\ m.mem[SlotOf(VarA.offset)] = 1

(***************************************************************************)
(* The return statement.                                                   *)
(***************************************************************************)
\* The lines of the ret of the return statements: every ret but the one of
\* the epilogue, the last line.
ReturnRets == {i \in 1..(Len(asm) - 1) : asm[i].op = "ret"}

\* The value main returned with is the value of the expression of the
\* return statement that is the whole program.
ReturnedValue ==
    (/\ Compiled
     /\ m.st = "halted"
     /\ Len(parsed.nodes) = 1
     /\ parsed.nodes[1].kind = "Return"
     /\ DivisionFree(parsed.nodes[1].expr)) =>
        \E a \in Garbage : m.rax = Value(parsed.nodes[1].expr, a).val

\* A step of the code: in the four lines that follow the expression of a
\* return the machine takes the value of the expression from the stack
\* into rax, sets rsp to rbp, takes the saved rbp and returns to the
\* caller with that rax, one line after the other.
ReturnStep ==
    (Compiled /\ m.st = "running" /\ m' # m) =>
        /\ \A i \in ReturnRets :
              /\ m.pc = i - 3 =>
                    /\ m'.st = "running" /\ m'.pc = i - 2
                    /\ m.rsp \in DOMAIN m.mem => m'.rax = m.mem[m.rsp]
              /\ m.pc = i - 2 =>
                    /\ m'.st = "running" /\ m'.pc = i - 1
                    /\ m'.rax = m.rax
                    /\ m'.rsp = m.rbp
              /\ m.pc = i - 1 =>
                    /\ m'.st = "running" /\ m'.pc = i
                    /\ m'.rax = m.rax
                    /\ m'.rsp = 0
              /\ m.pc = i =>
                    /\ m'.st = "halted"
                    /\ m'.rax = m.rax
        /\ ReturnedValue'

\* C27: a return statement puts the value of its expression in rax, tears
\* down the frame and returns to the caller at once, at any nesting depth
\* and with any number of words on the evaluation stack; no line behind it
\* is executed.
C27_ReturnLeavesAtOnce == [][ReturnStep]_vars

\* A return in a block in an if in a block in a while has returned 3, with
\* words left on the stack by the loop, and not the 9 of the return behind
\* the loop.
C27_Witness ==
    /\ Compiled
    /\ Len(parsed.nodes) = 3
    /\ parsed.nodes[2].kind = "While"
    /\ parsed.nodes[3] = Return(Num(9))
    /\ m.st = "halted"
    /\ m.rax = 3
    /\ m.pc \in ReturnRets
    /\ \E a \in DOMAIN m.mem : a < StmtRsp - 8

\* A return in an if in a for, behind a statement that popped a word of
\* the frame, has returned 4.
C27_WitnessFor ==
    /\ Compiled
    /\ Len(parsed.nodes) = 4
    /\ parsed.nodes[1] = Block(<<>>)
    /\ parsed.nodes[3].kind = "For"
    /\ m.st = "halted"
    /\ m.rax = 4
    /\ m.pc \in ReturnRets

(***************************************************************************)
(* The parser on the token sequences tokenize produces.                    *)
(***************************************************************************)
\* The tokens are as tokenize returns them: one EOF, in the last place.
EofTerminated ==
    /\ tokens # <<>>
    /\ \A i \in 1..Len(tokens) : tokens[i] = Tok("EOF") <=> i = Len(tokens)

\* C28: on tokens with one EOF, in the last place, a parse that fails
\* returns UnexpectedToken, never NotEnoughTokens or UnexpectedEOF, and
\* does not panic: the cursor is then on a token, EOF at the latest, and
\* it is behind EOF only when the parse succeeded.
C28_FailureIsUnexpectedToken ==
    (ParseDone /\ EofTerminated) =>
        /\ phase # "parsepanic"
        /\ ~parsed.ok =>
              /\ parsed.err.e = "UnexpectedToken"
              /\ parsed.st.pos <= Len(tokens)
              /\ parsed.err.actual = <<tokens[parsed.st.pos]>>
        /\ parsed.ok => parsed.st.pos = Len(tokens) + 1

\* "{ a ;" failed on EOF, where the block wants a statement or "}".
C28_Witness ==
    /\ ParseDone
    /\ tokens = <<Tok("LeftBrace"), TIdent(<<"a">>), Tok("Semicolon"),
                  Tok("EOF")>>
    /\ ~parsed.ok
    /\ parsed.err.e = "UnexpectedToken"
    /\ parsed.err.actual = <<Tok("EOF")>>
    /\ parsed.st.pos = 4

\* "return a" failed on EOF, where return wants ";".
C28_WitnessReturn ==
    /\ ParseDone
    /\ tokens = <<Tok("Return"), TIdent(<<"a">>), Tok("EOF")>>
    /\ parsed.err = UnexpectedToken(<<Tok("Semicolon")>>, <<Tok("EOF")>>)

(***************************************************************************)
(* The cursor alone: consume is called with one token after the other on   *)
(* a token sequence, the parser's on its cursor parsed.st.pos and the      *)
(* lexer's on the iterator token_iter.  call is the last probe: the        *)
(* function, the token asked for, the cursor before it, whether it         *)
(* succeeded, and the number of probes made.                               *)
(***************************************************************************)
MaxProbes == 3

ProbeTokens == {Tok("LeftParen"), Tok("RightParen"), TNum(1), Tok("EOF")}

InitCursor ==
    /\ phase = "cursor"
    /\ src = <<>>
    /\ tokens \in UNION {[1..n -> ProbeTokens] : n \in 0..MaxProbes}
    /\ parsed = NoParse
    /\ asm = <<>>
    /\ m = IdleMachine
    /\ locals = <<>>
    /\ calls = <<>>
    /\ last = LocalVar(<<>>, 0)
    /\ gen = NewGen
    /\ call = NoCall
    /\ args = <<>>
    /\ token_iter = 1

\* self.consume(token) on the parser's cursor.
ParserConsume ==
    /\ phase = "cursor"
    /\ call.count < MaxProbes
    /\ \E token \in ProbeTokens :
          LET r == consume(tokens, parsed.st, token)
          IN  /\ parsed' = [ok |-> r.ok, nodes |-> <<>>, err |-> r.err,
                            st |-> r.st]
              /\ call' = [op |-> "Parser::consume", token |-> token,
                          before |-> parsed.st.pos, ok |-> r.ok,
                          count |-> call.count + 1]
    /\ UNCHANGED <<phase, src, tokens, asm, m, locals, calls, last, gen, args,
                   token_iter>>

\* consume(&mut token_iter, token) of lexer.rs.
LexerConsume ==
    /\ phase = "cursor"
    /\ call.count < MaxProbes
    /\ \E token \in ProbeTokens :
          LET r == lexerConsume(tokens, token_iter, token)
          IN  /\ token_iter' = r.pos
              /\ call' = [op |-> "lexer::consume", token |-> token,
                          before |-> token_iter, ok |-> r.ok,
                          count |-> call.count + 1]
    /\ UNCHANGED <<phase, src, tokens, parsed, asm, m, locals, calls, last,
                   gen, args>>

NextCursor == ParserConsume \/ LexerConsume

SpecCursor == InitCursor /\ [][NextCursor]_vars

\* The cursor the last probe worked on.
Cursor == IF call.op = "Parser::consume" THEN parsed.st.pos ELSE token_iter

\* C29: consume(t) succeeds and moves the cursor by exactly one token when
\* the next token is t; when it is another token or there is none it
\* fails and leaves the cursor where it was.  The parser's failure names
\* the token asked for and the token found, or NotEnoughTokens at the end.
C29_ConsumeCursor ==
    (phase = "cursor" /\ call.op # "") =>
        /\ IF call.before <= Len(tokens) /\ tokens[call.before] = call.token
           THEN call.ok /\ Cursor = call.before + 1
           ELSE ~call.ok /\ Cursor = call.before
        /\ (call.op = "Parser::consume" /\ ~call.ok) =>
              parsed.err = IF call.before <= Len(tokens)
                           THEN UnexpectedToken(<<call.token>>,
                                                <<tokens[call.before]>>)
                           ELSE NotEnoughTokens

\* As in test_consume: on "( )" the probe for "(" at ")" has failed and
\* left the cursor on ")".
C29_Witness ==
    /\ phase = "cursor"
    /\ tokens = <<Tok("LeftParen"), Tok("RightParen")>>
    /\ call.op = "lexer::consume"
    /\ call.count = 2
    /\ call.token = Tok("LeftParen")
    /\ ~call.ok
    /\ token_iter = 2

\* The parser's probe for ")" at ")" has moved the cursor behind it.
C29_WitnessParser ==
    /\ phase = "cursor"
    /\ tokens = <<Tok("LeftParen"), Tok("RightParen")>>
    /\ call.op = "Parser::consume"
    /\ call.token = Tok("RightParen")
    /\ call.ok
    /\ parsed.st.pos = 3

(***************************************************************************)
(* tokenize and Parser::parse one turn of their outer loops at a time.     *)
(* src is the character iterator, the characters not yet taken; tokens are *)
(* the tokens pushed; parsed.st.pos is the parser's cursor and             *)
(* parsed.nodes the statements pushed by program.  A run starts with the   *)
(* lexer on a text, or with the parser on a token sequence of any shape.   *)
(* Nothing suspends either loop: a turn that can be taken is taken, the    *)
(* steps are weakly fair.  The overflow checks of the build are chosen at  *)
(* each number.                                                            *)
(***************************************************************************)
MaxStepLen == 3

StepChars == {"1", "a", ";", "{", "}", "=", " ", "!"}

\* "1;a;"
StepTwoStatements == <<"1", ";", "a", ";">>

\* "{1;}a=1;"
StepBlockThenAssign == <<"{", "1", ";", "}", "a", "=", "1", ";">>

\* "((1));"
StepNestedParens == <<"(", "(", "1", ")", ")", ";">>

\* "{{1;}"
StepOpenBlock == <<"{", "{", "1", ";", "}">>

\* " 1 ; !"
StepBangAtEnd == <<" ", "1", " ", ";", " ", "!">>

\* "111a;"
StepNumberThenWord == <<"1", "1", "1", "a", ";">>

StepSources ==
    UNION {[1..n -> StepChars] : n \in 0..MaxStepLen}
    \cup {StepTwoStatements, StepBlockThenAssign, StepNestedParens,
          StepOpenBlock, StepBangAtEnd, StepNumberThenWord}

StepTokens ==
    {TNum(1), TIdent(<<"a">>), Tok("Plus"), Tok("Assign"), Tok("LeftParen"),
     Tok("RightParen"), Tok("LeftBrace"), Tok("RightBrace"), Tok("Semicolon"),
     Tok("If"), Tok("EOF")}

StepTokenSeqs == UNION {[1..n -> StepTokens] : n \in 0..MaxStepLen}

StepStarts ==
    {<<"lexing", s, <<>>>> : s \in StepSources}
    \cup {<<"parsing", <<>>, ts>> : ts \in StepTokenSeqs}

InitSteps ==
    /\ \E start \in StepStarts :
          /\ phase = start[1]
          /\ src = start[2]
          /\ tokens = start[3]
    /\ parsed = NoParse
    /\ asm = <<>>
    /\ m = IdleMachine
    /\ locals = <<>>
    /\ calls = <<>>
    /\ last = LocalVar(<<>>, 0)
    /\ gen = NewGen
    /\ call = NoCall
    /\ args = <<>>
    /\ token_iter = 0

\* One turn of tokenize's loop: iter.peek() is None and EOF is pushed, or
\* the turn takes characters and pushes at most one token, or it panics.
LexStep ==
    /\ phase = "lexing"
    /\ \E checks \in BOOLEAN :
          IF src = <<>>
          THEN /\ tokens' = PushEof(tokens)
               /\ phase' = "parsing"
               /\ src' = src
          ELSE LET s == TokenizeStep(src, 1, checks)
               IN  IF s.ok
                   THEN /\ src' = SubSeq(src, s.pos, Len(src))
                        /\ tokens' = tokens \o s.toks
                        /\ phase' = phase
                   ELSE /\ phase' = "lexpanic"
                        /\ UNCHANGED <<src, tokens>>
    /\ UNCHANGED <<parsed, asm, m, locals, calls, last, gen, call, args,
                   token_iter>>

\* One turn of program's loop: EOF is consumed and the nodes are returned,
\* or a statement is parsed and pushed, or its error is returned.
ProgramStep ==
    /\ phase = "parsing"
    /\ LET c == consume(tokens, parsed.st, Tok("EOF"))
           s == stmt(tokens, parsed.st)
       IN  IF c.ok
           THEN /\ parsed' = [ok |-> TRUE, nodes |-> parsed.nodes,
                              err |-> NoErr, st |-> c.st]
                /\ phase' = "parsed"
           ELSE IF ~s.ok
           THEN /\ parsed' = [ok |-> FALSE, nodes |-> <<>>, err |-> s.err,
                              st |-> s.st]
                /\ phase' = IF s.err.e = "panic" THEN "parsepanic"
                            ELSE "parseerr"
           ELSE /\ parsed' = [parsed EXCEPT !.nodes = Append(@, s.node),
                                            !.st = s.st]
                /\ phase' = phase
    /\ UNCHANGED <<src, tokens, asm, m, locals, calls, last, gen, call, args,
                   token_iter>>

NextSteps == LexStep \/ ProgramStep

\* WF_vars(ProgramStep) written out.  A turn of program's loop can be taken
\* exactly in phase "parsing", and every turn changes phase or pushes a
\* node, so ENABLED <<ProgramStep>>_vars is phase = "parsing".
ProgramStepFair == []<>(phase # "parsing") \/ []<><<ProgramStep>>_vars

SpecSteps ==
    InitSteps /\ [][NextSteps]_vars /\ WF_vars(LexStep) /\ ProgramStepFair

\* tokenize has panicked, or parse has returned Ok or Err.
Finished == phase \in {"lexpanic", "parsed", "parseerr"}

\* A turn of tokenize's loop that goes round again has taken a character
\* and put none back; a turn of program's loop that goes round again has
\* moved the cursor forward.
StepConsumes ==
    /\ (phase = "lexing" /\ phase' = "lexing") =>
          /\ Len(src') < Len(src)
          /\ src' = SubSeq(src, Len(src) - Len(src') + 1, Len(src))
    /\ (phase = "parsing" /\ phase' = "parsing") =>
          parsed'.st.pos > parsed.st.pos

\* The functions of the descent.
Descent ==
    {"stmt", "expr", "assign", "equality", "relational", "add", "mul",
     "unary", "primary"}

\* From every cursor position every function of the descent that succeeds
\* has consumed a token, and none, failed or not, moves the cursor back or
\* behind the end.
DescentConsumes ==
    phase = "parsing" =>
        \A rule \in Descent : \A pos \in 1..(Len(tokens) + 1) :
            LET r == Rule(rule, tokens, [parsed.st EXCEPT !.pos = pos],
                          NoneNode)
            IN  /\ r.st.pos >= pos
                /\ r.st.pos <= Len(tokens) + 1
                /\ r.ok => r.st.pos > pos

\* The result the turns of program's loop arrive at is parse's.
TurnsGiveParse ==
    phase \in {"parsed", "parseerr"} =>
        /\ parsed.ok = parse(tokens).ok
        /\ parsed.nodes = parse(tokens).nodes
        /\ parsed.err = parse(tokens).err

\* C30: tokenize finishes, by returning or by panicking, on every text and
\* parse finishes with Ok or Err on every token sequence: every turn of
\* tokenize's loop and of program's loop and every successful function of
\* the descent consumes at least one character or token, and none is put
\* back.
C30_LexAndParseFinish ==
    /\ <>Finished
    /\ [][StepConsumes]_vars
    /\ [](DescentConsumes /\ TurnsGiveParse)

\* "1;a;" has been lexed in five turns and parsed in three: both
\* statements are pushed and the iterator and the tokens are used up.
C30_Witness ==
    /\ phase = "parsed"
    /\ src = <<>>
    /\ tokens = <<TNum(1), Tok("Semicolon"), TIdent(<<"a">>),
                  Tok("Semicolon"), Tok("EOF")>>
    /\ Len(parsed.nodes) = 2
    /\ parsed.st.pos = 6

\* Half way through "{1;}a=1;": the block is lexed and "a=1;" is left.
C30_WitnessLexing ==
    /\ phase = "lexing"
    /\ src = <<"a", "=", "1", ";">>
    /\ Len(tokens) = 4

\* The block of "{1;}a=1;" is parsed and the cursor is on a.
C30_WitnessParsing ==
    /\ phase = "parsing"
    /\ Len(tokens) = 9
    /\ Len(parsed.nodes) = 1
    /\ parsed.st.pos = 5

\* The unclosed block of "{{1;}" ends the parse with an error at EOF.
C30_WitnessError ==
    /\ phase = "parseerr"
    /\ Len(tokens) = 6
    /\ parsed.err.e = "UnexpectedToken"

====
